---- MODULE Spec2Model ----
(***************************************************************************)
(* Model of text-weather's WeatherServiceManager                           *)
(* (src/src/services/weatherManager.ts): construction of the priority      *)
(* order from the provider list and the WEATHER_PROVIDER_PRIORITY hint,    *)
(* and the ordered-retry algorithm of getForecast.                         *)
(*                                                                         *)
(* Strings the code takes apart (the priority hint) are sequences of       *)
(* one-character strings; strings the code builds (the reply text, the     *)
(* aggregate error message) are sequences of the pieces it concatenates.   *)
(* Provider names are one-character strings; a provider instance is its    *)
(* index in the constructor's argument list.                               *)
(***************************************************************************)
EXTENDS Integers, Sequences, FiniteSets, TLC

\* ---------------------------------------------------------------- bounds
\* longest provider list handed to the constructor
MaxProviders == 3
\* longest value of WEATHER_PROVIDER_PRIORITY, in characters
MaxHintLen == 4
\* longest generated upstream time series, in intervals
MaxSeries == 4

\* names a provider's getName() may return
Names == {"A", "B", "C"}
\* characters a priority hint is made of
HintChars == {"A", "C", ",", " "}

SeqsUpTo(S, n) == UNION {[1..k -> S] : k \in 0..n}

VARIABLES
  providersArg,   \* constructor argument: provider names, in registration order
  hint,           \* process.env.WEATHER_PROVIDER_PRIORITY
  mgr,            \* "new" | "ready" | "threw"
  providers,      \* this.providers: Map entries [name, inst] in insertion order
  priorityOrder,  \* this.priorityOrder
  activeProvider, \* this.activeProvider (instance index, 0 before construction)
  pc,             \* position of the getForecast call in flight
  preferred,      \* its preferredProvider argument
  idx,            \* position of the for-of loop in priorityOrder
  cur,            \* provider instance being probed or fetched
  errors,         \* its local errors array
  log,            \* provider methods it has invoked, in order
  used,           \* forecasts it has received from providers
  result,         \* how it ended
  locInput,       \* processLocation's input string
  locPc,          \* position of the processLocation call
  svc,            \* what the three-word service does with the request in flight
  locCalls,       \* requests processLocation has sent to the service
  locResult,      \* how processLocation ended
  adName,         \* the adapter: "OpenWeatherMap" or "Tomorrow.io"
  adOp,           \* the adapter method called
  adPc,           \* the await the adapter call stands at
  adTimer,        \* the abort timer of the call
  adRemote,       \* whether the remote end of the operation in flight answers
  adSeen,         \* what the remote ends did during the call
  adResult,       \* how the adapter call ended
  smsInput,       \* the Body of the inbound message
  smsPc,          \* the await the /sms handler stands at
  smsTimer,       \* the handler's 10 s timer and its callback
  headersSent,    \* res.headersSent
  sent,           \* the calls of sendMessage, in order
  ends,           \* the calls of res.end()
  caught,         \* the error the handler's catch block received
  held            \* the array a caller of the manager's getters holds

ctorVars == <<providersArg, hint, mgr, providers, priorityOrder, activeProvider>>
callVars == <<pc, preferred, idx, cur, errors, log, used, result>>
locVars == <<locInput, locPc, svc, locCalls, locResult>>
\* everything outside the manager
adVars == <<adName, adOp, adPc, adTimer, adRemote, adSeen, adResult>>
smsVars == <<smsInput, smsPc, smsTimer, headersSent, sent, ends, caught>>
callerVars == <<held>>
otherVars == <<locVars, adVars, smsVars, callerVars>>
vars == <<providersArg, hint, mgr, providers, priorityOrder, activeProvider,
          pc, preferred, idx, cur, errors, log, used, result, otherVars>>

\* no processLocation call in flight
LocIdle ==
  /\ locInput = <<>> /\ locPc = "idle" /\ svc = "none" /\ locCalls = 0
  /\ locResult = [kind |-> "none", lat |-> 0, lng |-> 0, message |-> ""]
\* no adapter call in flight
NothingSeen == [fetch |-> "none", status |-> 0, body |-> "none", data |-> <<>>, geo |-> "none"]
AdapterIdle ==
  /\ adName = "" /\ adOp = "" /\ adPc = "idle" /\ adTimer = "off" /\ adRemote = "none"
  /\ adSeen = NothingSeen
  /\ adResult = [kind |-> "none"]
\* no message being handled
NoError == [kind |-> "none", message |-> <<>>]
SmsIdle ==
  /\ smsInput = <<>> /\ smsPc = "idle" /\ smsTimer = "off" /\ headersSent = FALSE
  /\ sent = <<>> /\ ends = 0 /\ caught = NoError
\* the caller holds no array
NothingHeld == [of |-> "none", shared |-> FALSE, value |-> <<>>]
CallerIdle == held = NothingHeld
OtherIdle == LocIdle /\ AdapterIdle /\ SmsIdle /\ CallerIdle

\* ------------------------------------------------------------ JS helpers
\* an unset environment variable and the empty string are both falsy
Unset == [set |-> FALSE, s |-> <<>>]
EnvValue(s) == [set |-> TRUE, s |-> s]
Truthy(h) == h.set /\ Len(h.s) > 0

\* String.prototype.split(','): the pieces between separators, empty ones kept
RECURSIVE SplitFrom(_, _, _)
SplitFrom(s, i, acc) ==
  IF i > Len(s) THEN <<acc>>
  ELSE IF s[i] = "," THEN <<acc>> \o SplitFrom(s, i + 1, <<>>)
  ELSE SplitFrom(s, i + 1, Append(acc, s[i]))
Split(s) == SplitFrom(s, 1, <<>>)

\* String.prototype.trim(): whitespace removed at both ends only
RECURSIVE TrimStart(_)
TrimStart(t) == IF Len(t) > 0 /\ t[1] = " " THEN TrimStart(Tail(t)) ELSE t
RECURSIVE TrimEnd(_)
TrimEnd(t) ==
  IF Len(t) > 0 /\ t[Len(t)] = " " THEN TrimEnd(SubSeq(t, 1, Len(t) - 1)) ELSE t
Trim(t) == TrimEnd(TrimStart(t))

MapSeq(Op(_), s) == [i \in 1..Len(s) |-> Op(s[i])]
Contains(s, x) == \E i \in 1..Len(s) : s[i] = x

\* Map: entries in insertion order; set() on an existing key keeps its place
MapHas(m, k) == \E i \in 1..Len(m) : m[i].name = k
MapGet(m, k) == (CHOOSE i \in 1..Len(m) : m[i].name = k)
MapInst(m, k) == m[MapGet(m, k)].inst
MapSet(m, k, v) ==
  IF MapHas(m, k)
  THEN [i \in 1..Len(m) |-> IF m[i].name = k THEN [name |-> k, inst |-> v] ELSE m[i]]
  ELSE Append(m, [name |-> k, inst |-> v])
RECURSIVE MapFrom(_, _, _)
MapFrom(args, i, m) ==
  IF i > Len(args) THEN m ELSE MapFrom(args, i + 1, MapSet(m, args[i], i))
MapKeys(m) == [i \in 1..Len(m) |-> m[i].name]

\* a piece of the hint as a provider name: names are one character long, so
\* any other piece equals no name
IsName(t, m) == Len(t) = 1 /\ MapHas(m, t[1])
TokName(t) == t[1]

\* ----------------------------------------------------------- constructor
\* variant: providers missing from the hint are not appended
HintOrder_NoAppend(h, m) ==
  MapSeq(TokName, SelectSeq(MapSeq(Trim, Split(h.s)), LAMBDA t : IsName(t, m)))

HintOrder(h, m) ==
  LET pieces   == MapSeq(Trim, Split(h.s))
      filtered == MapSeq(TokName, SelectSeq(pieces, LAMBDA t : IsName(t, m)))
      remainingProviders == SelectSeq(MapKeys(m), LAMBDA n : ~Contains(filtered, n))
  IN filtered \o remainingProviders

BuildPriorityOrder(args, h, m) ==
  IF Truthy(h) THEN HintOrder(h, m) ELSE args

Constructor ==
  /\ mgr = "new"
  /\ IF Len(providersArg) = 0
     THEN /\ mgr' = "threw"
          /\ UNCHANGED <<providers, priorityOrder, activeProvider>>
     ELSE LET m  == MapFrom(providersArg, 1, <<>>)
              po == BuildPriorityOrder(providersArg, hint, m)
          IN /\ providers' = m
             /\ priorityOrder' = po
             /\ IF Len(po) > 0 /\ MapHas(m, po[1])
                THEN mgr' = "ready" /\ activeProvider' = MapInst(m, po[1])
                ELSE mgr' = "threw" /\ UNCHANGED activeProvider
  /\ UNCHANGED <<providersArg, hint>>
  /\ UNCHANGED callVars
  /\ UNCHANGED otherVars

\* provider lists and values of WEATHER_PROVIDER_PRIORITY that getForecast is
\* exercised under: one to three providers, a repeated name, no hint, a
\* reordering hint, a hint with an unknown name, a hint that repeats a name
ProviderLists ==
  {<<>>, <<"A">>, <<"A", "B">>, <<"A", "B", "C">>, <<"B", "A", "B">>}
HintSamples ==
  {Unset,
   EnvValue(<<"B", ",", " ", "A">>),
   EnvValue(<<"C", ",", "Q", ",", "A">>),
   EnvValue(<<"A", ",", "A">>)}

CallIdle ==
  /\ pc = "idle" /\ preferred = [given |-> FALSE, name |-> ""]
  /\ idx = 0 /\ cur = 0 /\ errors = <<>> /\ log = <<>> /\ used = <<>>
  /\ result = [kind |-> "none", text |-> <<>>]

InitCtor ==
  /\ providersArg \in SeqsUpTo(Names, MaxProviders)
  /\ hint \in {Unset} \cup {EnvValue(s) : s \in SeqsUpTo(HintChars, MaxHintLen)}
  /\ mgr = "new"
  /\ providers = <<>> /\ priorityOrder = <<>> /\ activeProvider = 0
  /\ CallIdle
  /\ OtherIdle

NextCtor == Constructor
SpecCtor == InitCtor /\ [][NextCtor]_vars

Init ==
  /\ providersArg \in ProviderLists
  /\ hint \in HintSamples
  /\ mgr = "new"
  /\ providers = <<>> /\ priorityOrder = <<>> /\ activeProvider = 0
  /\ CallIdle
  /\ OtherIdle

\* ------------------------------------------------------------ forecasts
\* temperatures and humidity are kept in tenths, so 155 is 15.5
NumStr(t) ==
  LET a == IF t < 0 THEN -t ELSE t
      whole == ToString(a \div 10)
      frac  == IF a % 10 = 0 THEN "" ELSE "." \o ToString(a % 10)
  IN (IF t < 0 THEN "-" ELSE "") \o whole \o frac

\* toLocaleTimeString('en-US', {hour: 'numeric', hour12: true}), clock in UTC
HourLabel(ts) ==
  LET h == (ts \div 3600) % 24
      h12 == IF h % 12 = 0 THEN 12 ELSE h % 12
  IN ToString(h12) \o (IF h < 12 THEN " AM" ELSE " PM")

RECURSIVE Join(_, _)
Join(parts, sep) ==
  IF Len(parts) = 0 THEN <<>>
  ELSE IF Len(parts) = 1 THEN parts[1]
  ELSE parts[1] \o <<sep>> \o Join(Tail(parts), sep)

\* StandardizedForecast values a provider may hand back
Forecasts ==
  { [location |-> "London",
     current |-> [temp |-> 150, feelsLike |-> 140, humidity |-> 600, description |-> "Clear"],
     hourly |-> << [timestamp |-> 3600, temp |-> 160, description |-> "Clear"],
                   [timestamp |-> 50400, temp |-> 140, description |-> "Clouds"] >>,
     summary |-> [high |-> 160, low |-> 140, predominantCondition |-> "Clear"]],
    [location |-> "51.51, -0.13",
     current |-> [temp |-> -25, feelsLike |-> -61, humidity |-> 455, description |-> "Snow"],
     hourly |-> <<>>,
     summary |-> [high |-> -25, low |-> -25, predominantCondition |-> "Snow"]] }

\* variant: the "Next few hours" section is left out when there are no hours
formatForecast_SkipsEmptyHours(forecast, providerName) ==
  LET current == forecast.current
      summary == forecast.summary
      immediate == Join(<< <<NumStr(current.temp), "°C ", current.description>>,
                           <<"Feels like ", NumStr(current.feelsLike), "°C">>,
                           <<"Humidity: ", NumStr(current.humidity), "%">> >>, "\n")
      hourLine(hour) == <<HourLabel(hour.timestamp), ": ", NumStr(hour.temp), "°C ",
                          hour.description>>
      upcoming == Join(MapSeq(hourLine, forecast.hourly), "\n")
      summaryText == Join(<< <<"High: ", NumStr(summary.high), "°C Low: ",
                               NumStr(summary.low), "°C">>,
                             <<"Predominantly ", summary.predominantCondition>> >>, "\n")
  IN <<"Weather forecast for ", forecast.location, ":\n(via ", providerName,
       ")\n\nRight now:\n">> \o immediate
     \o (IF Len(forecast.hourly) = 0 THEN <<>>
         ELSE <<"\n\nNext few hours:\n">> \o upcoming)
     \o <<"\n\n12-hour outlook:\n">> \o summaryText

formatForecast(forecast, providerName) ==
  LET current == forecast.current
      summary == forecast.summary
      immediate == Join(<< <<NumStr(current.temp), "°C ", current.description>>,
                           <<"Feels like ", NumStr(current.feelsLike), "°C">>,
                           <<"Humidity: ", NumStr(current.humidity), "%">> >>, "\n")
      hourLine(hour) == <<HourLabel(hour.timestamp), ": ", NumStr(hour.temp), "°C ",
                          hour.description>>
      upcoming == Join(MapSeq(hourLine, forecast.hourly), "\n")
      summaryText == Join(<< <<"High: ", NumStr(summary.high), "°C Low: ",
                               NumStr(summary.low), "°C">>,
                             <<"Predominantly ", summary.predominantCondition>> >>, "\n")
  IN <<"Weather forecast for ", forecast.location, ":\n(via ", providerName,
       ")\n\nRight now:\n">> \o immediate \o <<"\n\nNext few hours:\n">> \o upcoming
     \o <<"\n\n12-hour outlook:\n">> \o summaryText

\* --------------------------------------------------------------- errors
WeatherServiceError(message, provider) ==
  [class |-> "WeatherServiceError", provider |-> provider, message |-> message]
WeatherProviderTimeoutError(provider) ==
  [class |-> "WeatherProviderTimeoutError", provider |-> provider,
   message |-> "Weather provider timeout - please try again"]
\* an Error that is no WeatherServiceError has no provider property
PlainError(message) == [class |-> "Error", provider |-> "", message |-> message]

IsWeatherServiceError(e) ==
  e.class \in {"WeatherServiceError", "WeatherProviderTimeoutError",
               "WeatherProviderResponseError"}

\* what the WeatherProvider interface lets a provider throw
ProbeErrors(n) == {PlainError("connect ECONNREFUSED")}
FetchErrors(n) ==
  {WeatherProviderTimeoutError(n),
   WeatherServiceError("Unable to fetch weather data - please try again", n),
   PlainError("socket hang up")}

ErrorEntry(e) ==
  IF IsWeatherServiceError(e) THEN <<e.provider, ": ", e.message>> ELSE <<e.message>>
ErrorMessages(errs) == Join(MapSeq(ErrorEntry, errs), "; ")
AllFailedMessage(errs) == <<"Unable to fetch weather data: ">> \o ErrorMessages(errs)

\* ---------------------------------------------------------- getForecast
NoPreferred == [given |-> FALSE, name |-> ""]
PreferredArgs == {NoPreferred} \cup {[given |-> TRUE, name |-> n] : n \in Names \cup {"Q", ""}}
\* if (preferredProvider): undefined and "" are falsy
HasPreferred(p) == p.given /\ p.name # ""

NameOf(inst) == providersArg[inst]
Invoked(op, out) == [op |-> op, name |-> NameOf(cur), inst |-> cur, out |-> out]

\* variant: the preferred provider is not tried first
Call_IgnoresPreferred ==
  /\ mgr = "ready" /\ pc = "idle"
  /\ \E p \in PreferredArgs : preferred' = p
  /\ pc' = "loop" /\ cur' = 0
  /\ idx' = 1 /\ errors' = <<>> /\ log' = <<>> /\ used' = <<>>
  /\ result' = [kind |-> "none", text |-> <<>>]
  /\ UNCHANGED ctorVars
  /\ UNCHANGED otherVars

Call ==
  /\ mgr = "ready" /\ pc = "idle"
  /\ \E p \in PreferredArgs :
       /\ preferred' = p
       /\ IF HasPreferred(p) /\ MapHas(providers, p.name)
          THEN pc' = "prefProbe" /\ cur' = MapInst(providers, p.name)
          ELSE pc' = "loop" /\ cur' = 0
  /\ idx' = 1 /\ errors' = <<>> /\ log' = <<>> /\ used' = <<>>
  /\ result' = [kind |-> "none", text |-> <<>>]
  /\ UNCHANGED ctorVars
  /\ UNCHANGED otherVars

\* variant: an unavailable preferred provider is recorded as an error
PrefProbe_RecordsUnavailable ==
  /\ pc = "prefProbe"
  /\ \/ /\ log' = Append(log, Invoked("isAvailable", "true"))
        /\ pc' = "prefFetch"
        /\ UNCHANGED <<errors, cur>>
     \/ /\ log' = Append(log, Invoked("isAvailable", "false"))
        /\ errors' = Append(errors, PlainError("Provider unavailable"))
        /\ pc' = "loop" /\ cur' = 0
     \/ \E e \in ProbeErrors(NameOf(cur)) :
        /\ log' = Append(log, Invoked("isAvailable", "threw"))
        /\ errors' = Append(errors, e)
        /\ pc' = "loop" /\ cur' = 0
  /\ UNCHANGED <<preferred, idx, used, result>>
  /\ UNCHANGED ctorVars
  /\ UNCHANGED otherVars

\* lines 52, 58-61: await provider.isAvailable() of the preferred provider
PrefProbe ==
  /\ pc = "prefProbe"
  /\ \/ /\ log' = Append(log, Invoked("isAvailable", "true"))
        /\ pc' = "prefFetch"
        /\ UNCHANGED <<errors, cur>>
     \/ /\ log' = Append(log, Invoked("isAvailable", "false"))
        /\ pc' = "loop" /\ cur' = 0
        /\ UNCHANGED errors
     \/ \E e \in ProbeErrors(NameOf(cur)) :
        /\ log' = Append(log, Invoked("isAvailable", "threw"))
        /\ errors' = Append(errors, e)
        /\ pc' = "loop" /\ cur' = 0
  /\ UNCHANGED <<preferred, idx, used, result>>
  /\ UNCHANGED ctorVars
  /\ UNCHANGED otherVars

\* variant: no try/catch around the preferred provider's getForecast
PrefFetch_Propagates ==
  /\ pc = "prefFetch"
  /\ \/ \E f \in Forecasts :
        /\ log' = Append(log, Invoked("getForecast", "ok"))
        /\ used' = Append(used, f)
        /\ activeProvider' = cur
        /\ result' = [kind |-> "ok", text |-> formatForecast(f, NameOf(cur))]
        /\ pc' = "done"
        /\ UNCHANGED <<errors, cur>>
     \/ \E e \in FetchErrors(NameOf(cur)) :
        /\ log' = Append(log, Invoked("getForecast", "threw"))
        /\ result' = [kind |-> "thrown", text |-> <<e.message>>]
        /\ pc' = "done"
        /\ UNCHANGED <<errors, cur, used, activeProvider>>
  /\ UNCHANGED <<preferred, idx>>
  /\ UNCHANGED <<providersArg, hint, mgr, providers, priorityOrder>>
  /\ UNCHANGED otherVars

\* lines 53-56, 58-61: await provider.getForecast() of the preferred provider
PrefFetch ==
  /\ pc = "prefFetch"
  /\ \/ \E f \in Forecasts :
        /\ log' = Append(log, Invoked("getForecast", "ok"))
        /\ used' = Append(used, f)
        /\ activeProvider' = cur
        /\ result' = [kind |-> "ok", text |-> formatForecast(f, NameOf(cur))]
        /\ pc' = "done"
        /\ UNCHANGED <<errors, cur>>
     \/ \E e \in FetchErrors(NameOf(cur)) :
        /\ log' = Append(log, Invoked("getForecast", "threw"))
        /\ errors' = Append(errors, e)
        /\ pc' = "loop" /\ cur' = 0
        /\ UNCHANGED <<used, activeProvider, result>>
  /\ UNCHANGED <<preferred, idx>>
  /\ UNCHANGED <<providersArg, hint, mgr, providers, priorityOrder>>
  /\ UNCHANGED otherVars

\* variant: the loop starts at the provider that last succeeded
LoopHead_StartsAtActive ==
  /\ pc = "loop" /\ idx <= Len(priorityOrder)
  /\ LET providerName == priorityOrder[idx]
     IN IF HasPreferred(preferred) /\ providerName = preferred.name
        THEN idx' = idx + 1 /\ UNCHANGED <<pc, cur>>
        ELSE IF Len(log) = 0 /\ providerName # NameOf(activeProvider)
        THEN idx' = idx + 1 /\ UNCHANGED <<pc, cur>>
        ELSE /\ cur' = MapInst(providers, providerName)
             /\ pc' = "loopProbe"
             /\ UNCHANGED idx
  /\ UNCHANGED <<preferred, errors, log, used, result>>
  /\ UNCHANGED ctorVars
  /\ UNCHANGED otherVars

\* variant: the loop does not skip the preferred provider
LoopHead_NoSkip ==
  /\ pc = "loop" /\ idx <= Len(priorityOrder)
  /\ LET providerName == priorityOrder[idx]
     IN IF ~MapHas(providers, providerName)
        THEN idx' = idx + 1 /\ UNCHANGED <<pc, cur>>
        ELSE /\ cur' = MapInst(providers, providerName)
             /\ pc' = "loopProbe"
             /\ UNCHANGED idx
  /\ UNCHANGED <<preferred, errors, log, used, result>>
  /\ UNCHANGED ctorVars
  /\ UNCHANGED otherVars

\* lines 66-71: head of one iteration of the loop over priorityOrder
LoopHead ==
  /\ pc = "loop" /\ idx <= Len(priorityOrder)
  /\ LET providerName == priorityOrder[idx]
     IN IF HasPreferred(preferred) /\ providerName = preferred.name
        THEN idx' = idx + 1 /\ UNCHANGED <<pc, cur>>
        ELSE IF ~MapHas(providers, providerName)
        THEN idx' = idx + 1 /\ UNCHANGED <<pc, cur>>
        ELSE /\ cur' = MapInst(providers, providerName)
             /\ pc' = "loopProbe"
             /\ UNCHANGED idx
  /\ UNCHANGED <<preferred, errors, log, used, result>>
  /\ UNCHANGED ctorVars
  /\ UNCHANGED otherVars

\* variant: a provider skipped for unavailability is recorded as an error
LoopProbe_RecordsUnavailable ==
  /\ pc = "loopProbe"
  /\ \/ /\ log' = Append(log, Invoked("isAvailable", "true"))
        /\ pc' = "loopFetch"
        /\ UNCHANGED <<errors, cur, idx>>
     \/ /\ log' = Append(log, Invoked("isAvailable", "false"))
        /\ errors' = Append(errors, WeatherServiceError("Provider unavailable", NameOf(cur)))
        /\ pc' = "loop" /\ cur' = 0 /\ idx' = idx + 1
     \/ \E e \in ProbeErrors(NameOf(cur)) :
        /\ log' = Append(log, Invoked("isAvailable", "threw"))
        /\ errors' = Append(errors, e)
        /\ pc' = "loop" /\ cur' = 0 /\ idx' = idx + 1
  /\ UNCHANGED <<preferred, used, result>>
  /\ UNCHANGED ctorVars
  /\ UNCHANGED otherVars

\* lines 74, 80-84
LoopProbe ==
  /\ pc = "loopProbe"
  /\ \/ /\ log' = Append(log, Invoked("isAvailable", "true"))
        /\ pc' = "loopFetch"
        /\ UNCHANGED <<errors, cur, idx>>
     \/ /\ log' = Append(log, Invoked("isAvailable", "false"))
        /\ pc' = "loop" /\ cur' = 0 /\ idx' = idx + 1
        /\ UNCHANGED errors
     \/ \E e \in ProbeErrors(NameOf(cur)) :
        /\ log' = Append(log, Invoked("isAvailable", "threw"))
        /\ errors' = Append(errors, e)
        /\ pc' = "loop" /\ cur' = 0 /\ idx' = idx + 1
  /\ UNCHANGED <<preferred, used, result>>
  /\ UNCHANGED ctorVars
  /\ UNCHANGED otherVars

\* variant: a successful getForecast does not update this.activeProvider
LoopFetch_NoActiveWrite ==
  /\ pc = "loopFetch"
  /\ \/ \E f \in Forecasts :
        /\ log' = Append(log, Invoked("getForecast", "ok"))
        /\ used' = Append(used, f)
        /\ result' = [kind |-> "ok", text |-> formatForecast(f, NameOf(cur))]
        /\ pc' = "done"
        /\ UNCHANGED <<errors, cur, idx, activeProvider>>
     \/ \E e \in FetchErrors(NameOf(cur)) :
        /\ log' = Append(log, Invoked("getForecast", "threw"))
        /\ errors' = Append(errors, e)
        /\ pc' = "loop" /\ cur' = 0 /\ idx' = idx + 1
        /\ UNCHANGED <<used, activeProvider, result>>
  /\ UNCHANGED preferred
  /\ UNCHANGED <<providersArg, hint, mgr, providers, priorityOrder>>
  /\ UNCHANGED otherVars

\* variant: a failing getForecast ends the call instead of failing over
LoopFetch_NoFailover ==
  /\ pc = "loopFetch"
  /\ \/ \E f \in Forecasts :
        /\ log' = Append(log, Invoked("getForecast", "ok"))
        /\ used' = Append(used, f)
        /\ activeProvider' = cur
        /\ result' = [kind |-> "ok", text |-> formatForecast(f, NameOf(cur))]
        /\ pc' = "done"
        /\ UNCHANGED <<errors, cur, idx>>
     \/ \E e \in FetchErrors(NameOf(cur)) :
        /\ log' = Append(log, Invoked("getForecast", "threw"))
        /\ errors' = Append(errors, e)
        /\ result' = [kind |-> "error", text |-> AllFailedMessage(Append(errors, e))]
        /\ pc' = "done"
        /\ UNCHANGED <<used, activeProvider, cur, idx>>
  /\ UNCHANGED preferred
  /\ UNCHANGED <<providersArg, hint, mgr, providers, priorityOrder>>
  /\ UNCHANGED otherVars

\* variant: a successful getForecast does not end the loop
LoopFetch_KeepsGoing ==
  /\ pc = "loopFetch"
  /\ \/ \E f \in Forecasts :
        /\ log' = Append(log, Invoked("getForecast", "ok"))
        /\ used' = Append(used, f)
        /\ activeProvider' = cur
        /\ result' = [kind |-> "ok", text |-> formatForecast(f, NameOf(cur))]
        /\ pc' = IF idx < Len(priorityOrder) THEN "loop" ELSE "done"
        /\ idx' = idx + 1
        /\ UNCHANGED <<errors, cur>>
     \/ \E e \in FetchErrors(NameOf(cur)) :
        /\ log' = Append(log, Invoked("getForecast", "threw"))
        /\ errors' = Append(errors, e)
        /\ pc' = "loop" /\ cur' = 0 /\ idx' = idx + 1
        /\ UNCHANGED <<used, activeProvider, result>>
  /\ UNCHANGED preferred
  /\ UNCHANGED <<providersArg, hint, mgr, providers, priorityOrder>>
  /\ UNCHANGED otherVars

\* lines 75-78, 80-84
LoopFetch ==
  /\ pc = "loopFetch"
  /\ \/ \E f \in Forecasts :
        /\ log' = Append(log, Invoked("getForecast", "ok"))
        /\ used' = Append(used, f)
        /\ activeProvider' = cur
        /\ result' = [kind |-> "ok", text |-> formatForecast(f, NameOf(cur))]
        /\ pc' = "done"
        /\ UNCHANGED <<errors, cur, idx>>
     \/ \E e \in FetchErrors(NameOf(cur)) :
        /\ log' = Append(log, Invoked("getForecast", "threw"))
        /\ errors' = Append(errors, e)
        /\ pc' = "loop" /\ cur' = 0 /\ idx' = idx + 1
        /\ UNCHANGED <<used, activeProvider, result>>
  /\ UNCHANGED preferred
  /\ UNCHANGED <<providersArg, hint, mgr, providers, priorityOrder>>
  /\ UNCHANGED otherVars

\* lines 87-95: the loop ran off the end of priorityOrder
AllFailed ==
  /\ pc = "loop" /\ idx > Len(priorityOrder)
  /\ result' = [kind |-> "error", text |-> AllFailedMessage(errors)]
  /\ pc' = "done"
  /\ UNCHANGED <<preferred, idx, cur, errors, log, used>>
  /\ UNCHANGED ctorVars
  /\ UNCHANGED otherVars

\* the caller has taken the outcome; the next call may start
Return ==
  /\ pc = "done"
  /\ pc' = "idle" /\ preferred' = NoPreferred
  /\ idx' = 0 /\ cur' = 0 /\ errors' = <<>> /\ log' = <<>> /\ used' = <<>>
  /\ result' = [kind |-> "none", text |-> <<>>]
  /\ UNCHANGED ctorVars
  /\ UNCHANGED otherVars

Next ==
  \/ Constructor
  \/ Call
  \/ PrefProbe
  \/ PrefFetch
  \/ LoopHead
  \/ LoopProbe
  \/ LoopFetch
  \/ AllFailed
  \/ Return
Spec == Init /\ [][Next]_vars

\* lines 54, 76 run by another getForecast call in flight on the same manager:
\* its only write to shared state is this.activeProvider = provider
OtherCallSucceeds ==
  /\ mgr = "ready"
  /\ \E k \in 1..Len(providers) : activeProvider' = providers[k].inst
  /\ UNCHANGED <<providersArg, hint, mgr, providers, priorityOrder>>
  /\ UNCHANGED callVars
  /\ UNCHANGED otherVars

NextConc ==
  \/ Next
  \/ OtherCallSucceeds
SpecConc == Init /\ [][NextConc]_vars

\* =================================================================
\* Properties
\* =================================================================
Min(S) == CHOOSE x \in S : \A y \in S : x <= y
Max(S) == CHOOSE x \in S : \A y \in S : x >= y
Count(sq, x) == Cardinality({i \in 1..Len(sq) : sq[i] = x})
RegisteredNames == {providersArg[i] : i \in 1..Len(providersArg)}

IsProbe(ev) == ev.op = "isAvailable"
IsFetch(ev) == ev.op = "getForecast"
Threw(ev) == ev.out = "threw"
Probes == SelectSeq(log, IsProbe)
Fetches == SelectSeq(log, IsFetch)
Throws == SelectSeq(log, Threw)
EventNames(evs) == [i \in 1..Len(evs) |-> evs[i].name]
IsPrefixOf(a, b) == Len(a) <= Len(b) /\ \A i \in 1..Len(a) : a[i] = b[i]
InCall == pc # "idle"
PreferredRegistered == HasPreferred(preferred) /\ preferred.name \in RegisteredNames
\* a fetch is only ever made right after the same provider reported itself available
FetchFollowsProbe ==
  \A i \in 1..Len(log) :
    IsFetch(log[i]) =>
      i > 1 /\ IsProbe(log[i - 1]) /\ log[i - 1].out = "true" /\ log[i - 1].inst = log[i].inst
\* a successful fetch is the last thing a call does with a provider
OkIsLast == \A i \in 1..Len(log) : log[i].out = "ok" => i = Len(log)

\* -----------------------------------------------------------------
\* C1: without a preferred provider, getForecast probes providers strictly
\* in PriorityOrder, fetches only from a provider that reported itself
\* available, and ends with the formatted forecast of the first provider in
\* that order that is available and succeeds, or, when none is, only after
\* every entry of PriorityOrder was probed.
C1_PriorityOrderFailover ==
  (InCall /\ ~preferred.given) =>
    /\ IsPrefixOf(EventNames(Probes), priorityOrder)
    /\ FetchFollowsProbe
    /\ OkIsLast
    /\ (pc = "done" /\ result.kind = "ok") =>
         /\ Len(log) > 0 /\ log[Len(log)].out = "ok"
         /\ log[Len(log)].name = priorityOrder[Len(Probes)]
         /\ result.text = formatForecast(used[1], priorityOrder[Len(Probes)])
    /\ (pc = "done" /\ result.kind # "ok") =>
         /\ result.kind = "error"
         /\ EventNames(Probes) = priorityOrder
         /\ \A i \in 1..Len(log) : log[i].out # "ok"
    /\ pc = "done" => result.kind \in {"ok", "error"}

\* order [B, A, C]: B is tried and fails, A succeeds, C is never touched
C1_Witness ==
  /\ pc = "done" /\ ~preferred.given
  /\ priorityOrder = <<"B", "A", "C">>
  /\ EventNames(log) = <<"B", "B", "A", "A">>
  /\ log[2].out = "threw" /\ log[4].out = "ok"
  /\ result.kind = "ok"

\* -----------------------------------------------------------------
\* C2: after construction PriorityOrder is a permutation of the registered
\* provider names: each registered name occurs exactly once, no other name
\* occurs.
C2_PriorityOrderIsPermutation ==
  mgr = "ready" =>
    /\ \A n \in RegisteredNames : Count(priorityOrder, n) = 1
    /\ \A i \in 1..Len(priorityOrder) : priorityOrder[i] \in RegisteredNames

\* -----------------------------------------------------------------
\* C3: PriorityOrder is the hint's names that are registered, in hint order,
\* followed by the registered names absent from the hint in registration
\* order; without a hint it is the registration order.
CommaPos(s) == {i \in 1..Len(s) : s[i] = ","}
NthComma(s, k) ==
  IF k = 0 THEN 0
  ELSE IF k > Cardinality(CommaPos(s)) THEN Len(s) + 1
  ELSE CHOOSE i \in CommaPos(s) : Cardinality({j \in CommaPos(s) : j <= i}) = k
Stripped(t) ==
  LET solid == {i \in 1..Len(t) : t[i] # " "}
  IN IF solid = {} THEN <<>> ELSE SubSeq(t, Min(solid), Max(solid))
HintNames(s) ==
  [k \in 1..(Cardinality(CommaPos(s)) + 1) |->
     Stripped(SubSeq(s, NthComma(s, k - 1) + 1, NthComma(s, k) - 1))]
FirstRegistrations ==
  LET firsts == {i \in 1..Len(providersArg) :
                   \A j \in 1..(i - 1) : providersArg[j] # providersArg[i]}
      nth(k) == CHOOSE i \in firsts : Cardinality({j \in firsts : j <= i}) = k
  IN [k \in 1..Cardinality(firsts) |-> providersArg[nth(k)]]
ExpectedOrder ==
  IF hint.set /\ hint.s # <<>>
  THEN LET hn == HintNames(hint.s)
           known == SelectSeq(hn, LAMBDA t : Len(t) = 1 /\ t[1] \in RegisteredNames)
           kept == [i \in 1..Len(known) |-> known[i][1]]
           named == {kept[i] : i \in 1..Len(kept)}
       IN kept \o SelectSeq(FirstRegistrations, LAMBDA n : n \notin named)
  ELSE providersArg
C3_PriorityOrderConstruction == mgr = "ready" => priorityOrder = ExpectedOrder

\* registered [B, A] with hint "C,A" gives [A, B]: the unknown C is dropped,
\* B is appended since the hint does not name it
C3_Witness ==
  /\ mgr = "ready"
  /\ providersArg = <<"B", "A">>
  /\ hint = EnvValue(<<"C", ",", "A">>)
  /\ priorityOrder = <<"A", "B">>

\* -----------------------------------------------------------------
\* C4: a registered preferred provider is probed before any provider of
\* PriorityOrder; when it is available and its getForecast succeeds the
\* call ends at once with its formatted forecast and nothing else is probed
\* or fetched.
C4_PreferredFirst ==
  (InCall /\ PreferredRegistered) =>
    /\ pc = "prefProbe" => log = <<>>
    /\ pc # "prefProbe" =>
         /\ Len(log) > 0 /\ IsProbe(log[1]) /\ log[1].name = preferred.name
         /\ log[1].inst = MapInst(providers, preferred.name)
    /\ (Len(log) >= 2 /\ log[1].out = "true" /\ log[2].out = "ok") =>
         /\ pc = "done" /\ Len(log) = 2
         /\ IsFetch(log[2]) /\ log[2].name = preferred.name
         /\ result = [kind |-> "ok", text |-> formatForecast(used[1], preferred.name)]

C4_Witness ==
  /\ pc = "done" /\ preferred = [given |-> TRUE, name |-> "C"]
  /\ priorityOrder = <<"B", "A", "C">>
  /\ EventNames(log) = <<"C", "C">> /\ log[2].out = "ok"
  /\ result.kind = "ok"

\* -----------------------------------------------------------------
\* C5: when the preferred provider is unavailable or fails, the call goes on
\* with the other providers in PriorityOrder and never probes or fetches
\* the preferred provider again.
OthersInOrder == SelectSeq(priorityOrder, LAMBDA n : n # preferred.name)
C5_PreferredNotRetried ==
  (InCall /\ PreferredRegistered) =>
    /\ Count(EventNames(Probes), preferred.name) <= 1
    /\ Count(EventNames(Fetches), preferred.name) <= 1
    /\ \A i \in 2..Len(log) :
         log[i].name = preferred.name => (i = 2 /\ IsFetch(log[i]))
    /\ Len(Probes) > 0 => IsPrefixOf(Tail(EventNames(Probes)), OthersInOrder)
    /\ (pc = "done" /\ result.kind # "ok") => Tail(EventNames(Probes)) = OthersInOrder
    /\ (pc = "done" /\ Len(log) > 0 /\ log[Len(log)].out # "ok") => result.kind = "error"

\* preferred A is unavailable: B and C are tried, A is not tried again
C5_Witness ==
  /\ pc = "done" /\ preferred = [given |-> TRUE, name |-> "A"]
  /\ priorityOrder = <<"A", "B", "C">>
  /\ Len(log) = 4 /\ log[1].out = "false"
  /\ EventNames(log) = <<"A", "B", "C", "C">>
  /\ result.kind = "ok"

\* -----------------------------------------------------------------
\* C6 (as stated): once the preferred provider's step has ended without a
\* forecast, because isAvailable() returned false, isAvailable() threw or
\* getForecast threw, an error from that step is in the call's error list
\* and the call goes on with the loop.
PrefStepFailed ==
  /\ InCall /\ PreferredRegistered /\ Len(log) >= 1
  /\ \/ log[1].out \in {"false", "threw"}
     \/ Len(log) >= 2 /\ IsFetch(log[2]) /\ log[2].out = "threw"
PrefStepContinues ==
  /\ pc \in {"loop", "loopProbe", "loopFetch", "done"}
  /\ (pc = "done" /\ result.kind # "ok") => idx > Len(priorityOrder)
C6_PreferredOutcomesRecorded ==
  PrefStepFailed => (Len(errors) >= 1 /\ PrefStepContinues)

\* C6 (amended): in the preferred provider's step an error is appended
\* exactly when isAvailable() or getForecast throws, and it is the thrown
\* error; isAvailable() returning false appends nothing; in every one of
\* these cases the call goes on with the loop.
C6_PreferredThrowsRecorded ==
  PrefStepFailed =>
    /\ PrefStepContinues
    /\ log[1].out = "false" => (Len(log) = 1 => errors = <<>>)
    /\ log[1].out = "false" => \A i \in 1..Len(errors) : errors[i].provider # preferred.name
    /\ log[1].out = "threw" =>
         (Len(errors) >= 1 /\ errors[1] \in ProbeErrors(preferred.name))
    /\ (Len(log) >= 2 /\ log[2].out = "threw" /\ IsFetch(log[2])) =>
         (Len(errors) >= 1 /\ errors[1] \in FetchErrors(preferred.name))

\* preferred A reports itself unavailable: nothing is recorded for it and the
\* loop goes on to B, whose failure is the only recorded error
C6_Witness ==
  /\ pc = "done" /\ preferred = [given |-> TRUE, name |-> "A"]
  /\ priorityOrder = <<"A", "B">>
  /\ EventNames(log) = <<"A", "B", "B">> /\ log[1].out = "false"
  /\ errors = <<WeatherProviderTimeoutError("B")>>
  /\ result.kind = "error"

\* -----------------------------------------------------------------
\* C7: a provider that reports itself unavailable is skipped without an
\* error being recorded: the error list holds exactly one error per throw,
\* and a provider that was only ever skipped is named nowhere in the
\* aggregate error message.
OnlySkipped(n) ==
  /\ \E i \in 1..Len(log) : log[i].name = n /\ log[i].out = "false"
  /\ \A i \in 1..Len(log) : log[i].name = n => ~Threw(log[i])
C7_UnavailableNotRecorded ==
  InCall =>
    /\ Len(errors) = Len(Throws)
    /\ (pc = "done" /\ result.kind = "error") =>
         \A n \in Names : OnlySkipped(n) =>
           /\ \A i \in 1..Len(errors) : errors[i].provider # n
           /\ \A k \in 1..Len(result.text) : result.text[k] # n

C7_Witness ==
  /\ pc = "done" /\ ~preferred.given
  /\ priorityOrder = <<"A", "B", "C">>
  /\ EventNames(log) = <<"A", "B", "B", "C">>
  /\ log[1].out = "false" /\ log[4].out = "false"
  /\ result = [kind |-> "error",
               text |-> <<"Unable to fetch weather data: ", "B", ": ",
                          "Weather provider timeout - please try again">>]

\* -----------------------------------------------------------------
\* C8: when every provider is skipped or fails, the aggregate message is
\* the entries "<providerName>: <message>", one per provider failure in the
\* order they happened, joined by "; ", whatever the provider threw.
NamedEntries ==
  [i \in 1..Len(Throws) |-> <<Throws[i].name, ": ", errors[i].message>>]
C8_AggregateNamesEveryFailure ==
  (pc = "done" /\ result.kind = "error" /\ Len(errors) = Len(Throws)) =>
    result.text = <<"Unable to fetch weather data: ">> \o Join(NamedEntries, "; ")

\* -----------------------------------------------------------------
\* C9: whatever a provider throws from isAvailable or getForecast is caught
\* and kept in the error list; a call ends only by returning the formatted
\* forecast or by failing with the one aggregate error.
C9_NoAdapterErrorEscapes ==
  /\ (InCall /\ pc # "done") => result.kind = "none"
  /\ pc = "done" =>
       \/ /\ result.kind = "ok" /\ Len(used) = 1
          /\ result.text = formatForecast(used[1], log[Len(log)].name)
       \/ /\ result.kind = "error"
          /\ result.text = AllFailedMessage(errors)
  /\ InCall =>
       /\ Len(Throws) <= Len(errors)
       /\ \A i \in 1..Len(Throws) :
            errors[i] \in (IF IsProbe(Throws[i]) THEN ProbeErrors(Throws[i].name)
                           ELSE FetchErrors(Throws[i].name))

\* one provider's probe throws, another's fetch throws a plain Error, and the
\* call ends with the aggregate error
C9_Witness ==
  /\ pc = "done" /\ result.kind = "error"
  /\ Len(log) = 3 /\ IsProbe(log[1]) /\ Threw(log[1])
  /\ IsFetch(log[3]) /\ Threw(log[3])
  /\ errors[2] = PlainError("socket hang up")

\* -----------------------------------------------------------------
\* C10: a call receives at most one forecast; once a provider's getForecast
\* has succeeded nothing further is invoked, and the returned text is the
\* formatting of that one forecast.
OkEvents == {i \in 1..Len(log) : log[i].out = "ok"}
C10_SingleProviderResult ==
  InCall =>
    /\ Len(used) <= 1
    /\ Cardinality(OkEvents) = Len(used)
    /\ OkIsLast
    /\ Len(used) = 1 =>
         /\ pc = "done"
         /\ result = [kind |-> "ok",
                      text |-> formatForecast(used[1], log[Len(log)].name)]
         /\ activeProvider = log[Len(log)].inst
    /\ result.kind = "ok" => Len(used) = 1

\* C is skipped, A succeeds, B is never invoked
C10_Witness ==
  /\ pc = "done" /\ result.kind = "ok"
  /\ priorityOrder = <<"C", "A", "B">>
  /\ EventNames(log) = <<"C", "A", "A">>
  /\ log[1].out = "false"
  /\ Len(used) = 1

\* -----------------------------------------------------------------
\* C11: the providers a call attempts, and how it ends, are determined by
\* PriorityOrder, preferredName and the providers' responses alone: whatever
\* ActiveProvider holds (left by earlier calls or written by a call in flight
\* at the same time), the call attempts the preferred provider and then the
\* others in priority order, and its outcome is the one its own responses
\* give.
AttemptOrder ==
  (IF PreferredRegistered THEN <<preferred.name>> ELSE <<>>)
  \o (IF HasPreferred(preferred) THEN OthersInOrder ELSE priorityOrder)
C11_AttemptsIndependentOfActive ==
  InCall =>
    /\ IsPrefixOf(EventNames(Probes), AttemptOrder)
    /\ pc \in {"prefProbe", "loopProbe"} =>
         (Len(Probes) < Len(AttemptOrder) /\ NameOf(cur) = AttemptOrder[Len(Probes) + 1])
    /\ pc \in {"prefFetch", "loopFetch"} => NameOf(cur) = AttemptOrder[Len(Probes)]
    /\ pc = "done" =>
         IF Len(log) > 0 /\ log[Len(log)].out = "ok"
         THEN result = [kind |-> "ok",
                        text |-> formatForecast(used[1], AttemptOrder[Len(Probes)])]
         ELSE /\ EventNames(Probes) = AttemptOrder
              /\ result = [kind |-> "error", text |-> AllFailedMessage(errors)]

\* B is the active provider while a call probes A, the head of PriorityOrder,
\* and moves on to B only after A
C11_Witness ==
  /\ pc = "loopProbe" /\ ~preferred.given
  /\ priorityOrder = <<"A", "B", "C">>
  /\ NameOf(activeProvider) = "B"
  /\ EventNames(log) = <<"A">> /\ NameOf(cur) = "B"

\* -----------------------------------------------------------------
\* C12 (as stated): ActiveProvider is only ever set to a provider that has
\* just produced a successful forecast; a call that succeeds sets it to the
\* provider whose forecast it returned and a call that fails leaves it
\* unchanged.
SuccessStep ==
  /\ Len(log') = Len(log) + 1
  /\ log'[Len(log')].out = "ok"
  /\ log'[Len(log')].inst = activeProvider'
CallEnds(kind) == pc # "done" /\ pc' = "done" /\ result'.kind = kind
C12_ActiveIsLastSuccessful ==
  [][/\ activeProvider' # activeProvider => SuccessStep
     /\ CallEnds("ok") => activeProvider' = log'[Len(log')].inst
     /\ CallEnds("error") => activeProvider' = activeProvider]_vars

\* C12 (amended): construction sets ActiveProvider to the first provider of
\* PriorityOrder; afterwards it changes only when a getForecast call
\* succeeds, to the provider whose forecast that call returned, and a call
\* that fails leaves it unchanged.
C12_ActiveIsFirstThenLastSuccessful ==
  [][/\ (mgr = "new" /\ mgr' = "ready") =>
          activeProvider' = MapInst(providers', priorityOrder'[1])
     /\ (mgr = "ready" /\ activeProvider' # activeProvider) => SuccessStep
     /\ CallEnds("ok") => activeProvider' = log'[Len(log')].inst
     /\ CallEnds("error") => activeProvider' = activeProvider]_vars

\* a call has just returned C's forecast: C is active, not the head A
C12_Witness ==
  /\ pc = "done" /\ result.kind = "ok"
  /\ priorityOrder = <<"A", "B", "C">>
  /\ log[Len(log)].name = "C"
  /\ NameOf(activeProvider) = "C"

\* ======================================================= location parser
\* src/services/locationProcessor.ts.  A string is a sequence of characters;
\* "deg" stands for the degree sign.  A coordinate is a whole number of
\* 1/Scale degrees, so every decimal with at most four fractional digits is
\* represented exactly.
Scale == 10 * 10 * 10 * 10

Digits == <<"0", "1", "2", "3", "4", "5", "6", "7", "8", "9">>
IsDigit(c) == \E d \in 1..10 : Digits[d] = c
DigitVal(c) == (CHOOSE d \in 1..10 : Digits[d] = c) - 1
Uppers == <<"A", "B", "C", "D", "E", "F", "G", "H", "I", "J", "K", "L", "M",
            "N", "O", "P", "Q", "R", "S", "T", "U", "V", "W", "X", "Y", "Z">>
Lowers == <<"a", "b", "c", "d", "e", "f", "g", "h", "i", "j", "k", "l", "m",
            "n", "o", "p", "q", "r", "s", "t", "u", "v", "w", "x", "y", "z">>
IsUpper(c) == \E i \in 1..26 : Uppers[i] = c
IsLower(c) == \E i \in 1..26 : Lowers[i] = c

\* String.prototype.toLowerCase()
LowerChar(c) == IF IsUpper(c) THEN Lowers[CHOOSE i \in 1..26 : Uppers[i] = c] ELSE c
toLowerCase(t) == [i \in 1..Len(t) |-> LowerChar(t[i])]

\* replace(/^\/+/, ''): the leading slashes dropped
RECURSIVE StripSlashes(_)
StripSlashes(t) == IF Len(t) > 0 /\ t[1] = "/" THEN StripSlashes(Tail(t)) ELSE t

\* the pieces of t between occurrences of the character sep
RECURSIVE PiecesFrom(_, _, _, _)
PiecesFrom(t, sep, i, acc) ==
  IF i > Len(t) THEN <<acc>>
  ELSE IF t[i] = sep THEN <<acc>> \o PiecesFrom(t, sep, i + 1, <<>>)
  ELSE PiecesFrom(t, sep, i + 1, Append(acc, t[i]))
Pieces(t, sep) == PiecesFrom(t, sep, 1, <<>>)

\* -?\d+\.?\d*  : optional minus, digits, at most one dot after the first digit
Unsigned(t) == IF Len(t) > 0 /\ t[1] = "-" THEN Tail(t) ELSE t
IsDecimal(t) ==
  LET b == Unsigned(t)
  IN /\ Len(b) > 0
     /\ IsDigit(b[1])
     /\ \A i \in 1..Len(b) : IsDigit(b[i]) \/ b[i] = "."
     /\ Cardinality({i \in 1..Len(b) : b[i] = "."}) <= 1

\* /^(-?\d+\.?\d*),(-?\d+\.?\d*)$/ : neither group can hold a comma, so the
\* string matches exactly when it has one comma with a decimal on each side
coordsMatch(words) ==
  LET g == Pieces(words, ",")
  IN Len(g) = 2 /\ IsDecimal(g[1]) /\ IsDecimal(g[2])

\* variant: words may hold digits
w3wMatch_WordChars(words) ==
  LET g == Pieces(words, ".")
  IN /\ Len(g) = 3
     /\ \A k \in 1..3 : Len(g[k]) > 0
                        /\ \A i \in 1..Len(g[k]) : IsLower(g[k][i]) \/ IsDigit(g[k][i])

\* /^([a-z]+)\.([a-z]+)\.([a-z]+)$/
w3wMatch(words) ==
  LET g == Pieces(words, ".")
  IN /\ Len(g) = 3
     /\ \A k \in 1..3 : Len(g[k]) > 0 /\ \A i \in 1..Len(g[k]) : IsLower(g[k][i])

\* parseFloat on a string the coordinate pattern matched
RECURSIVE IntVal(_)
IntVal(ds) ==
  IF Len(ds) = 0 THEN 0
  ELSE IntVal(SubSeq(ds, 1, Len(ds) - 1)) * 10 + DigitVal(ds[Len(ds)])
RECURSIVE Pow10(_)
Pow10(n) == IF n = 0 THEN 1 ELSE 10 * Pow10(n - 1)
parseFloat(t) ==
  LET b     == Unsigned(t)
      dots  == {i \in 1..Len(b) : b[i] = "."}
      dot   == IF dots = {} THEN Len(b) + 1 ELSE CHOOSE i \in dots : TRUE
      whole == SubSeq(b, 1, dot - 1)
      frac  == SubSeq(b, dot + 1, IF Len(b) < dot + 4 THEN Len(b) ELSE dot + 4)
      mag   == IntVal(whole) * Scale + IntVal(frac) * Pow10(4 - Len(frac))
  IN IF Len(t) > 0 /\ t[1] = "-" THEN 0 - mag ELSE mag

\* what processLocation hands back
Coordinates(lat, lng) == [kind |-> "coords", lat |-> lat, lng |-> lng, message |-> ""]
NotALocation == [kind |-> "null", lat |-> 0, lng |-> 0, message |-> ""]
LocationProcessingError(message) ==
  [kind |-> "error", lat |-> 0, lng |-> 0, message |-> message]
InvalidCoordinateValues ==
  "Invalid coordinate values. Latitude must be between -90 and 90, longitude between -180 and 180."
InvalidResponseFormat == "Invalid response format from What3Words API"
UnableToProcess == "Unable to process location. Please check your input and try again."
ApiError(message) == "What3Words API error: " \o message
CallService == [kind |-> "fetch", lat |-> 0, lng |-> 0, message |-> ""]

InRange(lat, lng) ==
  /\ lat >= 0 - 90 * Scale /\ lat <= 90 * Scale
  /\ lng >= 0 - 180 * Scale /\ lng <= 180 * Scale

\* variant: anything that is neither shape is an error
BeforeFetch_ThrowsOnNeither(input) ==
  LET cleanInput == toLowerCase(Trim(input))
      words      == StripSlashes(cleanInput)
      g          == Pieces(words, ",")
  IN IF coordsMatch(words)
     THEN IF InRange(parseFloat(g[1]), parseFloat(g[2]))
          THEN Coordinates(parseFloat(g[1]), parseFloat(g[2]))
          ELSE LocationProcessingError(InvalidCoordinateValues)
     ELSE IF ~w3wMatch(words) THEN LocationProcessingError(UnableToProcess)
     ELSE CallService

\* variant: the upper latitude bound is exclusive
BeforeFetch_ExclusiveBound(input) ==
  LET cleanInput == toLowerCase(Trim(input))
      words      == StripSlashes(cleanInput)
      g          == Pieces(words, ",")
  IN IF coordsMatch(words)
     THEN IF InRange(parseFloat(g[1]), parseFloat(g[2])) /\ parseFloat(g[1]) < 90 * Scale
          THEN Coordinates(parseFloat(g[1]), parseFloat(g[2]))
          ELSE LocationProcessingError(InvalidCoordinateValues)
     ELSE IF ~w3wMatch(words) THEN NotALocation
     ELSE CallService

\* processLocation up to its first await: the outcome, or the need to ask the
\* three-word service
BeforeFetch(input) ==
  LET cleanInput == toLowerCase(Trim(input))
      words      == StripSlashes(cleanInput)
      g          == Pieces(words, ",")
  IN IF coordsMatch(words)
     THEN IF InRange(parseFloat(g[1]), parseFloat(g[2]))
          THEN Coordinates(parseFloat(g[1]), parseFloat(g[2]))
          ELSE LocationProcessingError(InvalidCoordinateValues)
     ELSE IF ~w3wMatch(words) THEN NotALocation
     ELSE CallService

\* what the three-word service can do with one request
ServiceBehaviours ==
  {"coordinates", "malformed", "notJson", "status", "statusNoBody", "networkError", "silent"}
ServiceCoordinates == Coordinates(515210, 0 - 1955)
ServiceErrorMessage == "words not found"

\* processLocation from the fetch to its end, given what the service did
AfterFetch(behaviour) ==
  CASE behaviour = "coordinates"  -> ServiceCoordinates
    [] behaviour = "malformed"    -> LocationProcessingError(InvalidResponseFormat)
    [] behaviour = "status"       -> LocationProcessingError(ApiError(ServiceErrorMessage))
    [] behaviour = "notJson"      -> LocationProcessingError(UnableToProcess)
    [] behaviour = "statusNoBody" -> LocationProcessingError(UnableToProcess)
    [] behaviour = "networkError" -> LocationProcessingError(UnableToProcess)

\* ---- inputs
\* Number.prototype.toString for a coordinate: no trailing zeros, no dot for
\* a whole number
RECURSIVE DigitsOf(_)
DigitsOf(n) ==
  IF n < 10 THEN <<Digits[n + 1]>> ELSE DigitsOf(n \div 10) \o <<Digits[(n % 10) + 1]>>
RECURSIVE DropZeros(_)
DropZeros(ds) ==
  IF Len(ds) > 0 /\ ds[Len(ds)] = "0" THEN DropZeros(SubSeq(ds, 1, Len(ds) - 1)) ELSE ds
Abs(v) == IF v < 0 THEN 0 - v ELSE v
FormatUnsigned(a) ==
  LET f == a % Scale
      frac == DropZeros(<<Digits[(f \div 1000) + 1], Digits[((f \div 100) % 10) + 1],
                          Digits[((f \div 10) % 10) + 1], Digits[(f % 10) + 1]>>)
  IN DigitsOf(a \div Scale) \o (IF Len(frac) = 0 THEN <<>> ELSE <<".">> \o frac)
FormatNumber(v) == (IF v < 0 THEN <<"-">> ELSE <<>>) \o FormatUnsigned(Abs(v))

\* "lat,lng"
FormatPair(lat, lng) == FormatNumber(lat) \o <<",">> \o FormatNumber(lng)

\* the other ways of writing a pair
Styles == {"space", "padded", "parens", "cardinal", "degreeCardinal", "cardinalTight"}
NS(lat) == IF lat < 0 THEN "S" ELSE "N"
EW(lng) == IF lng < 0 THEN "W" ELSE "E"
Decorate(style, lat, lng) ==
  CASE style = "space"    -> FormatNumber(lat) \o <<",", " ">> \o FormatNumber(lng)
    [] style = "padded"   -> <<" ">> \o FormatPair(lat, lng) \o <<" ">>
    [] style = "parens"   -> <<"(">> \o FormatNumber(lat) \o <<",", " ">>
                               \o FormatNumber(lng) \o <<")">>
    [] style = "cardinal" -> FormatUnsigned(Abs(lat)) \o <<NS(lat), ",", " ">>
                               \o FormatUnsigned(Abs(lng)) \o <<EW(lng)>>
    [] style = "degreeCardinal" ->
                             FormatUnsigned(Abs(lat)) \o <<"deg", NS(lat), ",", " ">>
                               \o FormatUnsigned(Abs(lng)) \o <<"deg", EW(lng)>>
    [] style = "cardinalTight" ->
                             FormatUnsigned(Abs(lat)) \o <<NS(lat), ",">>
                               \o FormatUnsigned(Abs(lng)) \o <<EW(lng)>>

LatSamples ==
  {0 - 90 * Scale - 1, 0 - 90 * Scale, 0 - 405000, 0, 515074, 90 * Scale, 90 * Scale + 1}
LngSamples ==
  {0 - 180 * Scale - 1, 0 - 180 * Scale, 0 - 1278, 0, 1278, 180 * Scale, 180 * Scale + 1}

ThreeWords == <<"f", "i", ".", "c", "o", ".", "s", "o">>
WordInputs ==
  { ThreeWords,
    <<"/", "/", "/">> \o ThreeWords,
    <<" ", "/">> \o ThreeWords \o <<" ">>,
    <<"F", "i", ".", "C", "O", ".", "s", "o">>,
    <<"/", " ">> \o ThreeWords,
    <<"f", "i", ".", "c", "o">>,
    ThreeWords \o <<".", "s", "o">>,
    <<"f", "1", ".", "c", "o", ".", "s", "o">>,
    <<"f", "i", ".", ".", "s", "o">>,
    <<"f", "i", ".", "c", " ", "o", ".", "s", "o">>,
    <<"h", "e", "l", "l", "o", " ", "w", "o", "r", "l", "d">>,
    <<>>,
    <<"1", "2">>,
    <<"1", ".", "2", ".", "3">>,
    <<"1", ",", "2", ",", "3">>,
    <<"-", ",", "1">>,
    <<"/", "/">> }

LocInputs ==
  {FormatPair(lat, lng) : lat \in LatSamples, lng \in LngSamples}
  \cup {Decorate(st, lat, lng) : st \in Styles, lat \in LatSamples, lng \in LngSamples}
  \cup WordInputs

\* ---- the call
managerVars == <<ctorVars, callVars>>
ManagerIdle ==
  /\ providersArg = <<>> /\ hint = Unset /\ mgr = "new"
  /\ providers = <<>> /\ priorityOrder = <<>> /\ activeProvider = 0
  /\ CallIdle

\* processLocation(input) runs to its return, its throw, or its fetch
processLocation ==
  /\ locPc = "idle"
  /\ LET r == BeforeFetch(locInput)
     IN IF r.kind = "fetch"
        THEN /\ locPc' = "await"
             /\ locCalls' = locCalls + 1
             /\ \E b \in ServiceBehaviours : svc' = b
             /\ UNCHANGED locResult
        ELSE /\ locPc' = "done"
             /\ locResult' = r
             /\ UNCHANGED <<svc, locCalls>>
  /\ UNCHANGED locInput
  /\ UNCHANGED <<managerVars, adVars, smsVars, callerVars>>

\* the fetch settles and processLocation runs to its end
ServiceResponds ==
  /\ locPc = "await"
  /\ svc # "silent"
  /\ locResult' = AfterFetch(svc)
  /\ locPc' = "done"
  /\ UNCHANGED <<locInput, svc, locCalls>>
  /\ UNCHANGED <<managerVars, adVars, smsVars, callerVars>>

InitLoc ==
  /\ ManagerIdle
  /\ AdapterIdle
  /\ SmsIdle
  /\ CallerIdle
  /\ locInput \in LocInputs
  /\ locPc = "idle" /\ svc = "none" /\ locCalls = 0
  /\ locResult = [kind |-> "none", lat |-> 0, lng |-> 0, message |-> ""]
NextLoc == processLocation \/ ServiceResponds
SpecLoc == InitLoc /\ [][NextLoc]_vars

\* ------------------------------------------- properties: location parser
\* Claim C13: an input "lat,lng" yields exactly (lat, lng) when
\* -90 <= lat <= 90 and -180 <= lng <= 180, bounds included, and the
\* invalid-coordinates error otherwise.
C13_DecimalPairRange ==
  \A lat \in LatSamples, lng \in LngSamples :
    (locPc = "done" /\ locInput = FormatPair(lat, lng)) =>
      /\ locCalls = 0
      /\ IF lat >= 0 - 90 * Scale /\ lat <= 90 * Scale
            /\ lng >= 0 - 180 * Scale /\ lng <= 180 * Scale
         THEN locResult = Coordinates(lat, lng)
         ELSE locResult = LocationProcessingError(InvalidCoordinateValues)
C13_Witness ==
  /\ locPc = "done"
  /\ locInput = <<"9", "0", ",", "1", "8", "0">>
  /\ locResult = Coordinates(90 * Scale, 180 * Scale)
C13_WitnessOut ==
  /\ locPc = "done"
  /\ locInput = <<"9", "0", ".", "0", "0", "0", "1", ",", "0">>
  /\ locResult.kind = "error"

\* the two shapes of a location, as a reader recognises them
Cardinals == {"N", "S", "E", "W", "n", "s", "e", "w"}
Undecorated(t) == SelectSeq(t, LAMBDA c : c \notin {" ", "(", ")", "deg"})
DropCardinal(t) ==
  IF Len(t) > 0 /\ t[Len(t)] \in Cardinals THEN SubSeq(t, 1, Len(t) - 1) ELSE t
DecimalPairShape(input) ==
  LET g == Pieces(Undecorated(input), ",")
  IN Len(g) = 2 /\ IsDecimal(DropCardinal(g[1])) /\ IsDecimal(DropCardinal(g[2]))
ThreeWordShape(input) ==
  LET g == Pieces(StripSlashes(Trim(input)), ".")
  IN /\ Len(g) = 3
     /\ \A k \in 1..3 : /\ Len(g[k]) > 0
                        /\ \A i \in 1..Len(g[k]) : IsLower(g[k][i]) \/ IsUpper(g[k][i])

\* Claim C14: an input of neither shape makes processLocation return null,
\* at once and without an error.
C14_NeitherShapeIsNull ==
  (locPc # "idle" /\ ~DecimalPairShape(locInput) /\ ~ThreeWordShape(locInput)) =>
    locPc = "done" /\ locResult = NotALocation
C14_Witness ==
  /\ locPc = "done"
  /\ locInput = <<"h", "e", "l", "l", "o", " ", "w", "o", "r", "l", "d">>
  /\ locResult = NotALocation

\* Claim C15: a pair written with a blank after the comma, parentheses,
\* degree signs or cardinal suffixes yields the in-range pair it denotes,
\* S and W standing for a negative value.
C15_DecoratedPairAccepted ==
  \A st \in Styles, lat \in LatSamples, lng \in LngSamples :
    (locPc = "done" /\ locInput = Decorate(st, lat, lng) /\ InRange(lat, lng)) =>
      locResult = Coordinates(lat, lng)

\* Claim C16: the three-word service is called exactly when the input,
\* trimmed and without its leading slashes, is three alphabetic words joined
\* by two dots; a decimal pair and a non-location never cause a call.
C16_ServiceCalledIffThreeWords ==
  locPc # "idle" =>
    /\ locCalls = (IF ThreeWordShape(locInput) THEN 1 ELSE 0)
    /\ (DecimalPairShape(locInput) => locCalls = 0)
    /\ (locResult = NotALocation => locCalls = 0)
C16_Witness ==
  /\ locPc = "await"
  /\ locInput = <<" ", "/">> \o ThreeWords \o <<" ">>
  /\ locCalls = 1
C16_WitnessNoCall ==
  /\ locPc = "done"
  /\ locInput = <<"f", "1", ".", "c", "o", ".", "s", "o">>
  /\ locCalls = 0

\* Claim C17: a call waiting for a three-word service that stays silent
\* still has a step to take, its timeout; it never waits for ever.
C17_LookupBoundedByTimeout ==
  (locPc = "await" /\ svc = "silent") => ENABLED NextLoc

\* ====================================================== provider adapters
\* OpenWeatherMapProvider (unnamed/part_004) and TomorrowIOProvider
\* (src/providers/tomorrowio.ts).  Temperatures and humidity are in tenths.
AdapterNames == {"OpenWeatherMap", "Tomorrow.io"}

WeatherProviderResponseError(provider, status, message) ==
  [class |-> "WeatherProviderResponseError", provider |-> provider, status |-> status,
   message |-> "Weather provider error: " \o ToString(status) \o " - "
               \o (IF message = "" THEN "Unknown error" ELSE message)]
UnableToFetch(provider) ==
  WeatherServiceError("Unable to fetch weather data - please try again", provider)

\* Math.round on a number of tenths: halves go up
MathRound(t) == ((t + 5) \div 10) * 10

\* one element of the upstream series; an element that is not complete lacks
\* its main / values / weather[0] object
Entry(dt, temp, feels, hum, desc, code) ==
  [complete |-> TRUE, dt |-> dt, temp |-> temp, feels |-> feels, hum |-> hum,
   desc |-> desc, code |-> code]
Broken(dt) ==
  [complete |-> FALSE, dt |-> dt, temp |-> 0, feels |-> 0, hum |-> 0, desc |-> "", code |-> 0]

\* upstream payloads: hasList is list (timelines.hourly), hasCity is city
FullSeries ==
  << Entry(3600, 145, 131, 604, "clear sky", 1000),
     Entry(7200, 0 - 25, 0 - 61, 455, "light rain", 4001),
     Entry(10800, 204, 199, 500, "light rain", 4001),
     Entry(14400, 98, 90, 710, "clear sky", 1000),
     Entry(18000, 301, 300, 300, "mist", 9999) >>
\* series generated from a few readings, stamped one hour apart
ReadingSamples ==
  { Entry(0, 0 - 15, 0 - 20, 455, "clear sky", 1000),
    Entry(0, 0 - 5, 0 - 5, 604, "light rain", 4001),
    Entry(0, 4, 0, 500, "clear sky", 1000),
    Entry(0, 5, 10, 500, "mist", 9999),
    Entry(0, 145, 131, 710, "light rain", 4001),
    Entry(0, 204, 199, 300, "mist", 9999) }
Stamp(series) == [i \in 1..Len(series) |-> [series[i] EXCEPT !.dt = 3600 * i]]
GeneratedSeries == {Stamp(sr) : sr \in SeqsUpTo(ReadingSamples, MaxSeries)}
Payloads ==
  {[hasList |-> TRUE, hasCity |-> TRUE, list |-> sr] : sr \in GeneratedSeries} \cup
  { [hasList |-> TRUE,  hasCity |-> TRUE,  list |-> FullSeries],
    [hasList |-> TRUE,  hasCity |-> TRUE,  list |-> SubSeq(FullSeries, 1, 1)],
    [hasList |-> TRUE,  hasCity |-> TRUE,  list |-> <<>>],
    [hasList |-> FALSE, hasCity |-> TRUE,  list |-> <<>>],
    [hasList |-> TRUE,  hasCity |-> FALSE, list |-> FullSeries],
    [hasList |-> TRUE,  hasCity |-> TRUE,  list |-> SubSeq(FullSeries, 1, 2)],
    [hasList |-> TRUE,  hasCity |-> TRUE,  list |-> SubSeq(FullSeries, 2, 4)],
    [hasList |-> TRUE,  hasCity |-> TRUE,  list |-> SubSeq(FullSeries, 2, 5)],
    [hasList |-> FALSE, hasCity |-> FALSE, list |-> <<>>],
    [hasList |-> TRUE,  hasCity |-> TRUE,  list |-> <<Broken(3600), FullSeries[2]>>],
    [hasList |-> TRUE,  hasCity |-> TRUE,  list |-> <<FullSeries[1], Broken(7200)>>] }
CityName == "London"

\* getWeatherDescription: the code table, 'Unknown' for any other code
getWeatherDescription(code) ==
  CASE code = 1000 -> "Clear"          [] code = 1100 -> "Mostly Clear"
    [] code = 1101 -> "Partly Cloudy"  [] code = 1102 -> "Mostly Cloudy"
    [] code = 1001 -> "Cloudy"         [] code = 2000 -> "Fog"
    [] code = 2100 -> "Light Fog"      [] code = 4000 -> "Drizzle"
    [] code = 4001 -> "Rain"           [] code = 4200 -> "Light Rain"
    [] code = 4201 -> "Heavy Rain"     [] code = 5000 -> "Snow"
    [] code = 5001 -> "Flurries"       [] code = 5100 -> "Light Snow"
    [] code = 5101 -> "Heavy Snow"     [] code = 6000 -> "Freezing Drizzle"
    [] code = 6001 -> "Freezing Rain"  [] code = 6200 -> "Light Freezing Rain"
    [] code = 6201 -> "Heavy Freezing Rain" [] code = 7000 -> "Ice Pellets"
    [] code = 7101 -> "Heavy Ice Pellets"   [] code = 7102 -> "Light Ice Pellets"
    [] code = 8000 -> "Thunderstorm"   [] OTHER -> "Unknown"

Condition(name, e) ==
  IF name = "Tomorrow.io" THEN getWeatherDescription(e.code) ELSE e.desc

\* Array.prototype.sort with the comparator of mode: the elements of array
\* in ascending number of occurrences in array, equal ones in their original
\* order (the sort is stable and compares on a copy of the elements)
Occurrences(array, x) == Cardinality({i \in 1..Len(array) : array[i] = x})
InsertSorted(x, sorted, array) ==
  LET k == Cardinality({i \in 1..Len(sorted) :
                          Occurrences(array, sorted[i]) <= Occurrences(array, x)})
  IN SubSeq(sorted, 1, k) \o <<x>> \o SubSeq(sorted, k + 1, Len(sorted))
RECURSIVE SortedPrefix(_, _)
SortedPrefix(array, i) ==
  IF i = 0 THEN <<>> ELSE InsertSorted(array[i], SortedPrefix(array, i - 1), array)

\* variant: the first element of the sorted array is taken
mode_First(array) ==
  LET sorted == SortedPrefix(array, Len(array))
  IN IF Len(sorted) = 0 THEN "" ELSE sorted[1]

\* mode: sort, pop the last element, '' when there is none
mode(array) ==
  LET sorted == SortedPrefix(array, Len(array))
  IN IF Len(sorted) = 0 THEN "" ELSE sorted[Len(sorted)]

\* variant: the first reading is left out of the summary
calculateSummary_HourlyOnly(name, forecasts) ==
  LET later == IF Len(forecasts) > 1 THEN Tail(forecasts) ELSE forecasts
      temps == {later[i].temp : i \in 1..Len(later)}
      conditions == [i \in 1..Len(later) |-> Condition(name, later[i])]
  IN [high |-> MathRound(Max(temps)), low |-> MathRound(Min(temps)),
      predominantCondition |-> mode(conditions)]

calculateSummary(name, forecasts) ==
  LET temps == {forecasts[i].temp : i \in 1..Len(forecasts)}
      conditions == [i \in 1..Len(forecasts) |-> Condition(name, forecasts[i])]
  IN [high |-> MathRound(Max(temps)), low |-> MathRound(Min(temps)),
      predominantCondition |-> mode(conditions)]

\* the validation each adapter applies to the parsed body
ValidPayload(name, data) ==
  IF name = "Tomorrow.io"
  THEN data.hasList /\ Len(data.list) > 0
  ELSE data.hasList /\ data.hasCity

\* the StandardizedForecast built from a payload that passed validation, or
\* the TypeError of reading a property of undefined
TypeError == [thrown |-> TRUE]
\* variant: the hourly entries start at the current interval
Normalize_HourlyFromFirst(name, data, locationName) ==
  LET next12Hours == SubSeq(data.list, 1, IF Len(data.list) < 4 THEN Len(data.list) ELSE 4)
      hourItem(i) == [timestamp |-> next12Hours[i].dt,
                      temp |-> MathRound(next12Hours[i].temp),
                      description |-> Condition(name, next12Hours[i])]
  IN IF Len(next12Hours) = 0 \/ \E i \in 1..Len(next12Hours) : ~next12Hours[i].complete
     THEN TypeError
     ELSE [thrown |-> FALSE,
           location |-> locationName,
           current |-> [temp |-> MathRound(next12Hours[1].temp),
                        feelsLike |-> MathRound(next12Hours[1].feels),
                        humidity |-> IF name = "Tomorrow.io"
                                     THEN MathRound(next12Hours[1].hum)
                                     ELSE next12Hours[1].hum,
                        description |-> Condition(name, next12Hours[1])],
           hourly |-> [i \in 1..(Len(next12Hours) - 1) |-> hourItem(i)],
           summary |-> calculateSummary(name, next12Hours)]

Normalize(name, data, locationName) ==
  LET next12Hours == SubSeq(data.list, 1, IF Len(data.list) < 4 THEN Len(data.list) ELSE 4)
      hourItem(i) == [timestamp |-> next12Hours[i].dt,
                      temp |-> MathRound(next12Hours[i].temp),
                      description |-> Condition(name, next12Hours[i])]
  IN IF Len(next12Hours) = 0 \/ \E i \in 1..Len(next12Hours) : ~next12Hours[i].complete
     THEN TypeError
     ELSE [thrown |-> FALSE,
           location |-> locationName,
           current |-> [temp |-> MathRound(next12Hours[1].temp),
                        feelsLike |-> MathRound(next12Hours[1].feels),
                        humidity |-> IF name = "Tomorrow.io"
                                     THEN MathRound(next12Hours[1].hum)
                                     ELSE next12Hours[1].hum,
                        description |-> Condition(name, next12Hours[1])],
           hourly |-> [i \in 1..(Len(next12Hours) - 1) |-> hourItem(i + 1)],
           summary |-> calculateSummary(name, next12Hours)]

\* getLocationName: the place name, or the coordinates to two decimals
CallLat == 51 * Scale + 5074
CallLng == 0 - 1278
RECURSIVE Text(_)
Text(chars) == IF Len(chars) = 0 THEN "" ELSE chars[1] \o Text(Tail(chars))
ToFixed2(v) ==
  LET r == (Abs(v) + 50) \div 100
      w == DigitsOf(r \div 100)
      text == (IF v < 0 /\ r > 0 THEN <<"-">> ELSE <<>>) \o w
              \o <<".", Digits[((r \div 10) % 10) + 1], Digits[(r % 10) + 1]>>
  IN Text(text)
GeocodeOutcomes == {"named", "unnamed", "notOk", "failed"}
getLocationName(outcome) ==
  IF outcome = "named" THEN CityName
  ELSE ToFixed2(CallLat) \o ", " \o ToFixed2(CallLng)

\* ---- the adapter call, one action per await
AdDone(kind, value) == adPc' = "done" /\ adResult' = [kind |-> kind, value |-> value]
Failed(e) == AdDone("error", e)

\* the call starts: the timer is armed and the request sent
AdapterCall ==
  /\ adPc = "idle"
  /\ adPc' = "fetch"
  /\ adTimer' = "armed"
  /\ adRemote' \in {"answers", "silent"}
  /\ UNCHANGED <<adName, adOp, adSeen, adResult>>
  /\ UNCHANGED <<managerVars, locVars, smsVars, callerVars>>

\* variant: isAvailable lets the abort error out
AbortFires_ProbeThrows ==
  /\ adPc = "fetch" /\ adTimer = "armed"
  /\ adTimer' = "fired"
  /\ adSeen' = [adSeen EXCEPT !.fetch = "abort"]
  /\ Failed(WeatherProviderTimeoutError(adName))
  /\ UNCHANGED <<adName, adOp, adRemote>>
  /\ UNCHANGED <<managerVars, locVars, smsVars, callerVars>>

\* the timer fires while the request is pending: controller.abort() rejects
\* the fetch with an AbortError
AbortFires ==
  /\ adPc = "fetch" /\ adTimer = "armed"
  /\ adTimer' = "fired"
  /\ adSeen' = [adSeen EXCEPT !.fetch = "abort"]
  /\ IF adOp = "isAvailable"
     THEN AdDone("bool", FALSE)
     ELSE Failed(WeatherProviderTimeoutError(adName))
  /\ UNCHANGED <<adName, adOp, adRemote>>
  /\ UNCHANGED <<managerVars, locVars, smsVars, callerVars>>

Statuses == {401, 503}

\* the fetch settles before the timer fires: a response, whose timer is then
\* cleared, or a network error
FetchSettles ==
  /\ adPc = "fetch" /\ adRemote = "answers"
  /\ \E how \in {"ok", "status", "networkError"}, st \in Statuses :
       /\ adSeen' = [adSeen EXCEPT !.fetch = how,
                                   !.status = IF how = "status" THEN st ELSE 0]
       /\ IF how = "networkError"
          THEN /\ IF adOp = "isAvailable" THEN AdDone("bool", FALSE)
                  ELSE Failed(UnableToFetch(adName))
               /\ UNCHANGED <<adTimer, adRemote>>
          ELSE /\ adTimer' = "cleared"
               /\ IF adOp = "isAvailable"
                  THEN AdDone("bool", how = "ok") /\ UNCHANGED adRemote
                  ELSE /\ adPc' = IF how = "ok" THEN "body" ELSE "errorBody"
                       /\ adRemote' \in {"answers", "silent"}
                       /\ UNCHANGED adResult
  /\ UNCHANGED <<adName, adOp>>
  /\ UNCHANGED <<managerVars, locVars, smsVars, callerVars>>

\* the body of a non-success response is read: its message, no usable body
\* (json() rejected, or no message in it), or the JSON value null
ErrorBodies == {"message", "noMessage", "null"}
UpstreamMessage == "Invalid API key"
StatusText(st) == IF st = 401 THEN "Unauthorized" ELSE "Service Unavailable"
ErrorBodySettles ==
  /\ adPc = "errorBody" /\ adRemote = "answers"
  /\ \E b \in ErrorBodies :
       /\ adSeen' = [adSeen EXCEPT !.body = b]
       /\ IF b = "null"
          THEN Failed(UnableToFetch(adName))
          ELSE Failed(WeatherProviderResponseError(adName, adSeen.status,
                        IF b = "message" THEN UpstreamMessage ELSE StatusText(adSeen.status)))
  /\ UNCHANGED <<adName, adOp, adTimer, adRemote>>
  /\ UNCHANGED <<managerVars, locVars, smsVars, callerVars>>

InvalidFormat(name) ==
  WeatherProviderResponseError(name, 500, "Invalid response format from weather service")
Outcome(name, data, locationName) ==
  LET f == Normalize(name, data, locationName)
  IN IF f.thrown THEN Failed(UnableToFetch(name)) ELSE AdDone("forecast", f)

\* the body of a success response is read and parsed
BodySettles ==
  /\ adPc = "body" /\ adRemote = "answers"
  /\ \/ /\ adSeen' = [adSeen EXCEPT !.body = "notJson"]
        /\ Failed(UnableToFetch(adName))
        /\ UNCHANGED adRemote
     \/ \E data \in Payloads :
          /\ adSeen' = [adSeen EXCEPT !.body = "payload", !.data = data]
          /\ IF ~ValidPayload(adName, data)
             THEN Failed(InvalidFormat(adName)) /\ UNCHANGED adRemote
             ELSE IF adName = "Tomorrow.io"
             THEN /\ adPc' = "geocode"
                  /\ adRemote' \in {"answers", "silent"}
                  /\ UNCHANGED adResult
             ELSE Outcome(adName, data, CityName) /\ UNCHANGED adRemote
  /\ UNCHANGED <<adName, adOp, adTimer>>
  /\ UNCHANGED <<managerVars, locVars, smsVars, callerVars>>

\* getLocationName settles; the forecast is then put together
GeocodeSettles ==
  /\ adPc = "geocode" /\ adRemote = "answers"
  /\ \E g \in GeocodeOutcomes :
       /\ adSeen' = [adSeen EXCEPT !.geo = g]
       /\ Outcome(adName, adSeen.data, getLocationName(g))
  /\ UNCHANGED <<adName, adOp, adTimer, adRemote>>
  /\ UNCHANGED <<managerVars, locVars, smsVars, callerVars>>

InitAdapter ==
  /\ ManagerIdle
  /\ LocIdle
  /\ SmsIdle
  /\ CallerIdle
  /\ adName \in AdapterNames
  /\ adOp \in {"isAvailable", "getForecast"}
  /\ adPc = "idle" /\ adTimer = "off" /\ adRemote = "none"
  /\ adSeen = NothingSeen
  /\ adResult = [kind |-> "none"]
NextAdapter ==
  \/ AdapterCall
  \/ AbortFires
  \/ FetchSettles
  \/ ErrorBodySettles
  \/ BodySettles
  \/ GeocodeSettles
SpecAdapter == InitAdapter /\ [][NextAdapter]_vars

\* ----------------------------------------------- properties: adapters
\* Claim C18: isAvailable() never throws: whatever its probe request does
\* (success, non-success status, network error, no answer before the
\* timeout) it resolves to a boolean, which is false on every error.
C18_ProbeNeverThrows ==
  adOp = "isAvailable" =>
    /\ adPc \in {"idle", "fetch", "done"}
    /\ adResult.kind \in {"none", "bool"}
    /\ (adPc = "fetch" => ENABLED NextAdapter)
    /\ (adPc = "done" =>
          /\ adResult.kind = "bool"
          /\ adSeen.fetch \in {"ok", "status", "networkError", "abort"}
          /\ adResult.value = (adSeen.fetch = "ok"))
C18_Witness ==
  /\ adOp = "isAvailable" /\ adPc = "done"
  /\ adRemote = "silent" /\ adSeen.fetch = "abort"
  /\ adResult = [kind |-> "bool", value |-> FALSE]

\* a payload without its series or city, or whose series is empty or has an
\* element without its values among those the forecast is built from
StructurallyInvalid(name, data) ==
  \/ ~data.hasList
  \/ name = "OpenWeatherMap" /\ ~data.hasCity
  \/ Len(data.list) = 0
  \/ \E i \in 1..Len(data.list) : i <= 4 /\ ~data.list[i].complete
ExpectedClass ==
  IF adSeen.fetch = "abort" THEN "WeatherProviderTimeoutError"
  ELSE IF \/ adSeen.fetch = "status"
          \/ adSeen.body = "payload" /\ StructurallyInvalid(adName, adSeen.data)
  THEN "WeatherProviderResponseError"
  ELSE "WeatherServiceError"

\* Claim C19: a failed getForecast carries the adapter's name and is a
\* timeout error when the timer fired, a response error on a non-success
\* status or a structurally invalid payload, and the generic provider error
\* for any other transport or parse failure.
C19_FailuresClassified ==
  (adOp = "getForecast" /\ adPc = "done" /\ adResult.kind = "error") =>
    /\ adResult.value.provider = adName
    /\ adResult.value.class = ExpectedClass

\* Claim C20: whichever network operation a getForecast call waits for (the
\* request, the reading of a body, the reverse geocoding), the call still
\* has a step to take when the remote end stays silent.
C20_EveryOperationBounded ==
  (adOp = "getForecast" /\ adPc \in {"fetch", "body", "errorBody", "geocode"}) =>
    ENABLED NextAdapter

\* ------------------------------------------- properties: forecast text
\* the forecast with every number rounded to a whole one
WholeForecast(f) ==
  [location |-> f.location,
   current |-> [temp |-> MathRound(f.current.temp),
                feelsLike |-> MathRound(f.current.feelsLike),
                humidity |-> MathRound(f.current.humidity),
                description |-> f.current.description],
   hourly |-> [i \in 1..Len(f.hourly) |->
                 [timestamp |-> f.hourly[i].timestamp,
                  temp |-> MathRound(f.hourly[i].temp),
                  description |-> f.hourly[i].description]],
   summary |-> [high |-> MathRound(f.summary.high), low |-> MathRound(f.summary.low),
                predominantCondition |-> f.summary.predominantCondition]]

\* Claim C21: the reply of a successful call shows every temperature and the
\* humidity of the forecast the provider returned as whole numbers, rounded
\* to the nearest, whatever fractional values the forecast holds.
C21_NumbersRenderedWhole ==
  (pc = "done" /\ result.kind = "ok") =>
    result.text = formatForecast(WholeForecast(used[1]), log[Len(log)].name)

\* Claim C22: a forecast without hourly entries is formatted without a
\* failure: the reply has its header, the "Right now" block, the "Next few
\* hours:" label directly followed by the outlook, and the summary.
C22_EmptyHourlyRendered ==
  (pc = "done" /\ Len(used) > 0 /\ Len(used[1].hourly) = 0) =>
    /\ result.kind = "ok"
    /\ LET t == result.text
       IN /\ t[1] = "Weather forecast for " /\ t[2] = used[1].location
          /\ t[5] = ")\n\nRight now:\n"
          /\ \E i \in 6..(Len(t) - 1) :
               t[i] = "\n\nNext few hours:\n" /\ t[i + 1] = "\n\n12-hour outlook:\n"
          /\ t[Len(t) - 1] = "Predominantly "
          /\ t[Len(t)] = used[1].summary.predominantCondition
C22_Witness ==
  /\ pc = "done" /\ result.kind = "ok"
  /\ Len(used) = 1 /\ used[1].hourly = <<>>
  /\ Contains(result.text, "\n\nNext few hours:\n")

\* ========================================================= /sms handler
\* src/server.ts lines 156-217.  A reply text is a sequence of tokens.
Guidance ==
  <<"Please send a valid What3Words location (e.g., \"///filled.count.soap\" or \"filled.count.soap\") or coordinates (e.g., \"51.5074,-0.1278\")">>
TimedOut == <<"Request timed out. Please try again.">>
Sorry == <<"Sorry, there was an error processing your request. Please try again.">>
UnableNow == <<"Unable to fetch weather data at this time. Please try again later.">>

\* the errors the catch block can receive
ParserError(message) == [kind |-> "LocationProcessingError", message |-> <<message>>]
ManagerError(text) == [kind |-> "Error", message |-> text]
TwilioError == [kind |-> "Error", message |-> <<"Authentication Error - invalid username">>]

\* variant: every error's message is sent as it is
errorMessage_Verbatim(e) == e.message

\* lines 197-203
errorMessage(e) ==
  IF e.kind = "LocationProcessingError" THEN e.message
  ELSE IF e.kind = "WeatherServiceError" THEN UnableNow
  ELSE Sorry

\* the messages handled
SmsInputs ==
  { FormatPair(CallLat, CallLng),
    FormatPair(90 * Scale + 1, 0),
    Decorate("space", CallLat, CallLng),
    ThreeWords,
    <<"h", "e", "l", "l", "o", " ", "w", "o", "r", "l", "d">> }

\* what weatherManager.getForecast gives the handler: the server registers
\* the OpenWeatherMap adapter alone
ManagerOutcomes ==
  {[kind |-> "ok", text |-> formatForecast(f, "OpenWeatherMap")] : f \in Forecasts}
  \cup {[kind |-> "error",
         text |-> AllFailedMessage(<<UnableToFetch("OpenWeatherMap")>>)]}

Handed(by, text) == sent' = Append(sent, [by |-> by, text |-> text])
\* clearTimeout stops a timer that has not fired
Cleared(t) == IF t = "armed" THEN "cleared" ELSE t

\* the catch block and finally, entered with error e while the timer is t
Catch(e, t) ==
  /\ caught' = e
  /\ IF ~headersSent
     THEN Handed("main", errorMessage(e)) /\ smsPc' = "sendError" /\ smsTimer' = t
     ELSE UNCHANGED sent /\ smsPc' = "done" /\ smsTimer' = Cleared(t)

\* the handler from the point where processLocation settled with r
AfterParse(r, t) ==
  IF r.kind = "null"
  THEN Handed("main", Guidance) /\ smsPc' = "sendGuidance" /\ smsTimer' = t
       /\ UNCHANGED caught
  ELSE IF r.kind = "coords"
  THEN smsPc' = "forecast" /\ smsTimer' = t /\ UNCHANGED <<sent, caught>>
  ELSE Catch(ParserError(r.message), t)

\* the handler is entered: the timer is set and processLocation called; it
\* settles in the same turn unless it has to ask the three-word service
Receive ==
  /\ smsPc = "idle"
  /\ LET r == BeforeFetch(smsInput)
     IN IF r.kind = "fetch"
        THEN smsPc' = "parse" /\ smsTimer' = "armed" /\ UNCHANGED <<sent, caught>>
        ELSE AfterParse(r, "armed")
  /\ UNCHANGED <<smsInput, headersSent, ends>>
  /\ UNCHANGED <<managerVars, locVars, adVars, callerVars>>

\* the three-word service answered
ParseSettles ==
  /\ smsPc = "parse"
  /\ \E b \in ServiceBehaviours \ {"silent"} : AfterParse(AfterFetch(b), smsTimer)
  /\ UNCHANGED <<smsInput, headersSent, ends>>
  /\ UNCHANGED <<managerVars, locVars, adVars, callerVars>>

\* weatherManager.getForecast settled
ForecastSettles ==
  /\ smsPc = "forecast"
  /\ \E o \in ManagerOutcomes :
       IF o.kind = "ok"
       THEN Handed("main", o.text) /\ smsPc' = "sendForecast"
            /\ UNCHANGED <<smsTimer, caught>>
       ELSE Catch(ManagerError(o.text), smsTimer)
  /\ UNCHANGED <<smsInput, headersSent, ends>>
  /\ UNCHANGED <<managerVars, locVars, adVars, callerVars>>

\* a sendMessage of the main flow settled: delivered, or rejected by Twilio
SendSettles ==
  /\ smsPc \in {"sendGuidance", "sendForecast", "sendError"}
  /\ \E delivered \in BOOLEAN :
       IF delivered \/ smsPc = "sendError"
       THEN /\ ends' = ends + 1 /\ headersSent' = TRUE
            /\ smsPc' = "done" /\ smsTimer' = Cleared(smsTimer)
            /\ UNCHANGED <<sent, caught>>
       ELSE Catch(TwilioError, smsTimer) /\ UNCHANGED <<headersSent, ends>>
  /\ UNCHANGED smsInput
  /\ UNCHANGED <<managerVars, locVars, adVars, callerVars>>

\* variant: the timer callback ends the response without a message
TimerFires_Silent ==
  /\ smsTimer = "armed"
  /\ smsTimer' = "done"
  /\ IF ~headersSent
     THEN ends' = ends + 1 /\ headersSent' = TRUE
     ELSE UNCHANGED <<headersSent, ends>>
  /\ UNCHANGED <<smsInput, smsPc, sent, caught>>
  /\ UNCHANGED <<managerVars, locVars, adVars, callerVars>>

\* 10 s after the handler was entered the timer callback runs
TimerFires ==
  /\ smsTimer = "armed"
  /\ IF ~headersSent
     THEN Handed("timer", TimedOut) /\ smsTimer' = "sending"
     ELSE UNCHANGED sent /\ smsTimer' = "done"
  /\ UNCHANGED <<smsInput, smsPc, headersSent, ends, caught>>
  /\ UNCHANGED <<managerVars, locVars, adVars, callerVars>>

\* the callback's sendMessage settled; either way it ends the response
TimerSendSettles ==
  /\ smsTimer = "sending"
  /\ smsTimer' = "done"
  /\ ends' = ends + 1 /\ headersSent' = TRUE
  /\ UNCHANGED <<smsInput, smsPc, sent, caught>>
  /\ UNCHANGED <<managerVars, locVars, adVars, callerVars>>

InitSms ==
  /\ ManagerIdle /\ LocIdle /\ AdapterIdle /\ CallerIdle
  /\ smsInput \in SmsInputs
  /\ smsPc = "idle" /\ smsTimer = "off" /\ headersSent = FALSE
  /\ sent = <<>> /\ ends = 0 /\ caught = NoError
NextSms ==
  \/ Receive
  \/ ParseSettles
  \/ ForecastSettles
  \/ SendSettles
  \/ TimerFires
  \/ TimerSendSettles
SpecSms == InitSms /\ [][NextSms]_vars
\* a timer that is set and not cleared fires; nothing makes the parser, the
\* providers or Twilio answer
SpecSmsFair == SpecSms /\ WF_vars(TimerFires)

\* ----------------------------------------------- properties: /sms handler
FromTimer == {i \in 1..Len(sent) : sent[i].by = "timer"}
TimerRan == smsTimer \in {"sending", "done"}

\* Claim C23: when the timer runs before any reply was produced, the
\* "Request timed out" reply is sent; when a reply was produced first, the
\* timeout reply is never sent.
C23_TimeoutReplyOnlyWithoutReply ==
  /\ \A i \in FromTimer : i = 1 /\ sent[i].text = TimedOut
  /\ (TimerRan => Len(sent) > 0)
  /\ (TimerRan /\ sent[1].by # "main" => sent[1] = [by |-> "timer", text |-> TimedOut])

\* a reply that is not empty has been handed to sendMessage
Replied == \E i \in 1..Len(sent) : Len(sent[i].text) > 0 /\ sent[i].text[1] # ""

\* Claim C24: every message that enters the handler leads to a non-empty
\* reply being handed to sendMessage, whether the parser and the manager
\* answer, fail or never settle.
C24_EveryMessageAnswered == (smsPc # "idle") ~> Replied
C24_Witness ==
  /\ smsPc = "parse"
  /\ sent = <<[by |-> "timer", text |-> TimedOut]>>

\* the reply that fits an error: the parser's own message, or a fixed text
\* with nothing of the error in it
ReplyFits(e, text) ==
  IF e.kind = "LocationProcessingError"
  THEN text = e.message
  ELSE /\ text \in {Sorry, UnableNow}
       /\ \A i \in 1..Len(e.message) : ~Contains(text, e.message[i])
ErrorReplied(e) ==
  \E i \in 1..Len(sent) : sent[i].by = "main" /\ ReplyFits(e, sent[i].text)

\* Claim C25: an error the handler catches is answered, a parser error with
\* exactly its message and any other error with a fixed generic text.
C25_ErrorsReplied ==
  caught # NoError => ErrorReplied(caught)

\* Claim C25, amended: the error is answered in that way when the response
\* has not been ended yet; when it has, the catch block sends nothing.
C25_ErrorsRepliedUnlessEnded ==
  [][(caught = NoError /\ caught' # NoError) =>
       IF headersSent
       THEN sent' = sent
       ELSE /\ Len(sent') = Len(sent) + 1
            /\ SubSeq(sent', 1, Len(sent)) = sent
            /\ sent'[Len(sent')].by = "main"
            /\ ReplyFits(caught', sent'[Len(sent')].text)]_vars
C25_Witness ==
  /\ caught = ParserError(InvalidCoordinateValues)
  /\ sent = <<[by |-> "main", text |-> <<InvalidCoordinateValues>>]>>
  /\ smsPc = "done"

\* Claim C30: for one message the handler calls sendMessage at most once and
\* res.end() at most once, however the timer callback interleaves with the
\* main flow.
C30_AtMostOneReply ==
  Len(sent) <= 1 /\ ends <= 1

\* ------------------------------------------ properties: adapter forecasts
Returned == adOp = "getForecast" /\ adPc = "done" /\ adResult.kind = "forecast"

\* Claim C26: a returned forecast has its current reading from the first
\* interval of the series and its hourly entries from the intervals after
\* it, in the order of the series, three at most.
C26_CurrentThenHourly ==
  Returned =>
    LET series == adSeen.data.list
        f == adResult.value
    IN /\ Len(series) > 0
       /\ f.current.temp = MathRound(series[1].temp)
       /\ f.current.description = Condition(adName, series[1])
       /\ Len(f.hourly) = (IF Len(series) > 3 THEN 3 ELSE Len(series) - 1)
       /\ \A i \in 1..Len(f.hourly) :
            /\ f.hourly[i].timestamp = series[i + 1].dt
            /\ f.hourly[i].temp = MathRound(series[i + 1].temp)
            /\ f.hourly[i].description = Condition(adName, series[i + 1])
            /\ f.hourly[i].timestamp # series[1].dt
C26_Witness ==
  /\ Returned
  /\ adSeen.data.list = FullSeries
  /\ Len(adResult.value.hourly) = 3
  /\ adResult.value.hourly[3].timestamp = FullSeries[4].dt

\* Claim C27: in a returned forecast high >= low, and high and low are the
\* largest and smallest temperature among the current and hourly readings,
\* so each of those readings lies between low and high.
C27_HighLowOverAllReadings ==
  Returned =>
    LET f == adResult.value
        readings == {f.current.temp} \cup {f.hourly[i].temp : i \in 1..Len(f.hourly)}
    IN /\ f.summary.high >= f.summary.low
       /\ f.summary.high = Max(readings)
       /\ f.summary.low = Min(readings)
       /\ \A t \in readings : f.summary.low <= t /\ t <= f.summary.high
C27_Witness ==
  /\ Returned
  /\ adSeen.data.list = SubSeq(FullSeries, 2, 4)
  /\ adResult.value.summary.low = adResult.value.current.temp
  /\ adResult.value.summary.high > adResult.value.summary.low

\* Claim C28: predominantCondition is a mode of the condition descriptions
\* of the readings the forecast is built from: it is one of them, and none
\* of them occurs more often.
C28_PredominantIsMode ==
  Returned =>
    LET series == adSeen.data.list
        n == IF Len(series) < 4 THEN Len(series) ELSE 4
        descriptions == [i \in 1..n |-> Condition(adName, series[i])]
        r == adResult.value.summary.predominantCondition
    IN /\ Count(descriptions, r) > 0
       /\ \A i \in 1..n : Count(descriptions, descriptions[i]) <= Count(descriptions, r)
C28_Witness ==
  /\ Returned
  /\ adName = "OpenWeatherMap"
  /\ Len(adSeen.data.list) = 4
  /\ adSeen.data.list[1].desc = "mist" /\ adSeen.data.list[2].desc = "light rain"
  /\ adSeen.data.list[3].desc = "clear sky" /\ adSeen.data.list[4].desc = "light rain"
  /\ adResult.value.summary.predominantCondition = "light rain"

\* ================================================== callers of the getters
\* weatherManager.ts lines 137-151.  The caller holds the array a getter
\* returned; shared tells whether it is the manager's own priorityOrder
\* array, so that a change made through it is a change of the manager.
Returns(of, shared, value) == held' = [of |-> of, shared |-> shared, value |-> value]
CallerFrame == UNCHANGED <<managerVars, locVars, adVars, smsVars>>

\* variant: the manager's own array is handed out
getPriorityOrder_Alias ==
  /\ mgr = "ready"
  /\ Returns("order", TRUE, priorityOrder)
  /\ CallerFrame

\* [...this.priorityOrder]: a new array with the same names
getPriorityOrder ==
  /\ mgr = "ready"
  /\ Returns("order", FALSE, priorityOrder)
  /\ CallerFrame

\* this.priorityOrder.map(name => this.providers.get(name)): a new array
getAllProviders ==
  /\ mgr = "ready"
  /\ Returns("providers", FALSE,
             [i \in 1..Len(priorityOrder) |-> MapInst(providers, priorityOrder[i])])
  /\ CallerFrame

\* Array.from(this.providers.keys()): a new array
getProviderNames ==
  /\ mgr = "ready"
  /\ Returns("names", FALSE, MapKeys(providers))
  /\ CallerFrame

\* the caller changes the array it holds: pop(), reverse(), or length = 0
Mutations(a) ==
  { IF Len(a) = 0 THEN a ELSE SubSeq(a, 1, Len(a) - 1),
    [i \in 1..Len(a) |-> a[Len(a) + 1 - i]],
    <<>> }
CallerMutates ==
  /\ held.of # "none"
  /\ \E a \in Mutations(held.value) :
       /\ a # held.value
       /\ held' = [held EXCEPT !.value = a]
       /\ IF held.shared THEN priorityOrder' = a ELSE UNCHANGED priorityOrder
  /\ UNCHANGED <<providersArg, hint, mgr, providers, activeProvider>>
  /\ UNCHANGED <<callVars, locVars, adVars, smsVars>>

\* a manager with two providers, its callers, and calls in flight
InitCaller ==
  /\ providersArg = <<"A", "B">>
  /\ hint \in {Unset, EnvValue(<<"B", ",", " ", "A">>)}
  /\ mgr = "new"
  /\ providers = <<>> /\ priorityOrder = <<>> /\ activeProvider = 0
  /\ CallIdle
  /\ OtherIdle
NextCaller ==
  \/ NextConc
  \/ getPriorityOrder
  \/ getAllProviders
  \/ getProviderNames
  \/ CallerMutates
SpecCaller == InitCaller /\ [][NextCaller]_vars

\* Claim C29: once the manager is constructed, no step of a getForecast
\* call, of a concurrent call, of a getter or of a caller changing a
\* returned array changes priorityOrder or the registered providers.
C29_PriorityOrderFixed ==
  [][mgr = "ready" => priorityOrder' = priorityOrder /\ providers' = providers]_vars
C29_Witness ==
  /\ held.of = "order" /\ held.value = <<>>
  /\ priorityOrder = <<"B", "A">>
  /\ pc = "done" /\ result.kind = "ok"

====
